---- MODULE Spec2Model ----
(***************************************************************************)
(* Model of the partition-refinement canonizer (crate `normal-form`):      *)
(*   src/src/coloring.rs   Coloring / ReversibleColoring                   *)
(*   src/src/tree.rs       search Node                                     *)
(*   src/src/lib.rs        Canonize::canonize                              *)
(*   src/tests/rdf.rs      the gRDF Graph<bool> structure used by tests    *)
(*                                                                         *)
(* The universe is the `usize` set of src/src/set/usize.rs: the items are  *)
(* 0..n-1 and a Map<V> is a Vec<V> indexed by item.  Rust slices are       *)
(* 0-based and half open; the sequences below are 1-based, so the Rust     *)
(* range a..b is SubSeq(s, a+1, b).                                        *)
(***************************************************************************)
EXTENDS Integers, Sequences, FiniteSets, TLC

\* ------------------------------------------------------------------ bounds
\* Size of the universe of the coloring scenarios.
N == 3
\* Largest nesting depth begin() is allowed to reach in the scenarios.
MaxDepth == 2
\* Number of distinct key values / initial colors drawn as inputs.
NKeys == 3
\* Largest number of (u, v) neighbor pairs in a drawn neighbors function.
MaxEdges == 2
\* Size of the universe of the make_equitable scenarios.
NEq == 4
\* Canonized gRDF graphs of any triples: number of variables
\* (variable_count) and largest number of triples.
NVars == 3
MaxTriples == 2
\* Canonized gRDF graphs of edges (variable, value, variable): number of
\* variables and largest number of triples.
NEdgeVars == 5
MaxEdgeTriples == 3
\* The graphs canonize is run on to its end hold at most MaxSmallTriples triples.
MaxSmallTriples == 1

\* The universe `n: usize` as a set: items 0..n-1 (Set::iter, usize.rs:25).
Items(n) == 0 .. (n - 1)

U == Items(N)

\* Option<usize>::None as a key: None < Some(x) for every x (derived Ord).
None == -1

\* An Option<T> that is handed back to the caller: Some(v) and None as
\* sequences of one and of no value; Option::unwrap on a Some.
Some(v) == <<v>>
Nothing == <<>>
Unwrap(o) == o[1]

\* ------------------------------------------------------- sorting helpers
\* slice::sort_unstable on distinct items: the ascending sequence of a set.
RECURSIVE SortSet(_)
SortSet(S) ==
  IF S = {} THEN <<>>
  ELSE LET m == CHOOSE x \in S : \A y \in S : x <= y
       IN  <<m>> \o SortSet(S \ {m})

SeqSet(s) == { s[i] : i \in DOMAIN s }

\* s with the Rust range a..b replaced by the sequence t (of length b-a).
Splice(s, a, b, t) ==
  [ i \in DOMAIN s |-> IF i > a /\ i <= b THEN t[i - a] ELSE s[i] ]

\* Variant: the value is pushed at the end.
InsertAtEnd(s, i, x) == Append(s, x)

\* Vec::insert(i, x) and Vec::remove(i), 0-based index i.
InsertAt(s, i, x) == SubSeq(s, 1, i) \o <<x>> \o SubSeq(s, i + 1, Len(s))
RemoveAt(s, i) == SubSeq(s, 1, i) \o SubSeq(s, i + 2, Len(s))

\* slice::sort_unstable_by_key.  The library sorts a slice of at most
\* MaxInsertionSort items by insertion: each item is moved left past the
\* items of a greater key, so items of equal key keep the order they had in
\* the slice, and the item at position p ends after the items of a lesser key
\* and the items of the same key that stood before it.  On a longer slice the
\* order the library leaves among items of equal key is not specified, and
\* the operator has no value there: SortByKey, and with it FromMap,
\* RefineColor, RefineCells and what is built on them, are defined on slices
\* (universes, cells) of at most MaxInsertionSort items.
MaxInsertionSort == 20

SortByKey(s, f) ==
  CASE Len(s) <= MaxInsertionSort ->
    LET Before(q, p) == f[s[q]] < f[s[p]] \/ (f[s[q]] = f[s[p]] /\ q < p)
        Rank(p) == 1 + Cardinality({ q \in DOMAIN s : Before(q, p) })
    IN  [ r \in DOMAIN s |-> s[CHOOSE p \in DOMAIN s : Rank(p) = r] ]

\* -------------------------------------------------------------- Coloring
\* A (Reversible)Coloring value is a record
\*   [elements, bounds, reverse, depth]
\* bounds is a sequence of Bound records [offset, depth].

Bound(offset, depth) == [offset |-> offset, depth |-> depth]

\* PartialEq for Bound: the offsets are compared, the depth tags are not.
BoundEq(a, b) == a.offset = b.offset

\* PartialEq for ReversibleColoring: the colorings are compared (elements
\* and bounds, the bounds by BoundEq), the reverse index and the depth are
\* not.
ReversibleColoringEq(a, b) ==
  /\ a.elements = b.elements
  /\ Len(a.bounds) = Len(b.bounds)
  /\ \A k \in DOMAIN a.bounds : BoundEq(a.bounds[k], b.bounds[k])

\* Coloring::len
ColoringLen(c) == Len(c.bounds) + 1

\* Coloring::is_discrete
IsDiscrete(c) == ColoringLen(c) = Len(c.elements)

\* Coloring::color_start (for i < len)
ColorStart(c, i) == IF i = 0 THEN 0 ELSE c.bounds[i].offset

\* End offset of cell i, as computed in Coloring::get / get_mut.
ColorEnd(c, i) ==
  IF i < Len(c.bounds) THEN c.bounds[i + 1].offset ELSE Len(c.elements)

\* Coloring::get(i) for i < len: the i-th cell as a sequence.
Cell(c, i) == SubSeq(c.elements, ColorStart(c, i) + 1, ColorEnd(c, i))

\* Variant: a start bound that is missing reads as the end of the elements.
GetPastEnd(c, i) ==
  LET start == IF i = 0 THEN 0
               ELSE IF i - 1 < Len(c.bounds) THEN c.bounds[i].offset
               ELSE Len(c.elements)
  IN  Some(SubSeq(c.elements, start + 1, ColorEnd(c, i)))

\* Coloring::get(i): Some(cell), or None when i > 0 and bounds.get(i - 1) is
\* None.
Get(c, i) ==
  IF i # 0 /\ ~(i - 1 < Len(c.bounds)) THEN Nothing
  ELSE Some(SubSeq(c.elements, ColorStart(c, i) + 1, ColorEnd(c, i)))

\* Coloring::colors: the cell indexes it iterates over.
Colors(c) == 0 .. (ColoringLen(c) - 1)

\* Variant: the cells are left as they are.
SortCellsNot(c) == c

\* Coloring::sort_cells
SortCells(c) ==
  [ c EXCEPT !.elements =
      [ p \in DOMAIN c.elements |->
          LET i == CHOOSE k \in Colors(c) :
                     ColorStart(c, k) < p /\ p <= ColorEnd(c, k)
          IN  SortSet(SeqSet(Cell(c, i)))[p - ColorStart(c, i)] ] ]

\* Coloring::color_index_of: linear scan over the cells.
ScanColorIndexOf(c, item) ==
  CHOOSE i \in Colors(c) : item \in SeqSet(Cell(c, i))

\* Variant: the items are left in item order, not sorted by color.
FromMapByItem(n, map) ==
  LET elements == SortSet(Items(n))
      cuts == { i \in 1 .. (n - 1) : map[elements[i]] # map[elements[i + 1]] }
      offs == SortSet(cuts)
      bounds == [ k \in DOMAIN offs |-> Bound(offs[k], 0) ]
  IN  SortCells([elements |-> elements, bounds |-> bounds])

\* Coloring::from_map; map is the color of each item (a function on
\* Items(n)).
FromMap(n, map) ==
  LET elements == SortByKey(SortSet(Items(n)), map)
      cuts == { i \in 1 .. (n - 1) : map[elements[i]] # map[elements[i + 1]] }
      offs == SortSet(cuts)
      bounds == [ k \in DOMAIN offs |-> Bound(offs[k], 0) ]
  IN  SortCells([elements |-> elements, bounds |-> bounds])

FromColoring(n, coloring) ==
  LET reset == [ k \in DOMAIN coloring.bounds |->
                   Bound(coloring.bounds[k].offset, 0) ]
      c == [elements |-> coloring.elements, bounds |-> reset]
  IN  [ elements |-> c.elements,
        bounds   |-> c.bounds,
        reverse  |-> [ item \in Items(n) |-> ScanColorIndexOf(c, item) ],
        depth    |-> 0 ]

\* ReversibleColoring::new: the unit coloring.
NewColoring(n) ==
  [ elements |-> SortSet(Items(n)),
    bounds   |-> <<>>,
    reverse  |-> [ item \in Items(n) |-> 0 ],
    depth    |-> 0 ]

\* ReversibleColoring::check
Check(c) ==
  \A i \in Colors(c) :
    /\ \A p \in 1 .. (Len(Cell(c, i)) - 1) : Cell(c, i)[p] <= Cell(c, i)[p + 1]
    /\ \A p \in DOMAIN Cell(c, i) : c.reverse[Cell(c, i)[p]] = i

\* Variant: the reverse index is handed out whatever the coloring.
AsPermutationAlways(c) == Some(c.reverse)

\* ReversibleColoring::as_permutation
AsPermutation(c) == IF IsDiscrete(c) THEN Some(c.reverse) ELSE Nothing

\* slice::binary_search(item).unwrap() on a cell that contains item.
PosIn(cell, item) == (CHOOSE p \in DOMAIN cell : cell[p] = item) - 1

\* Variant: after the swap of item to the front the rest of the cell is left
\* as it is, not sorted.
IndividualizeUnsorted(c, item) ==
  LET color_index == c.reverse[item]
      color_start == ColorStart(c, color_index)
      color == Cell(c, color_index)
  IN  IF Len(color) > 1
      THEN LET i == PosIn(color, item) + 1
               rest == [ p \in 1 .. (Len(color) - 1) |->
                           IF p + 1 = i THEN color[1] ELSE color[p + 1] ]
               split == <<item>> \o rest
           IN  [ c |-> [ c EXCEPT
                   !.elements = Splice(c.elements, color_start,
                                       color_start + Len(color), split),
                   !.bounds = InsertAt(c.bounds, color_index,
                                       Bound(color_start + 1, c.depth)),
                   !.reverse = [ t \in DOMAIN c.reverse |->
                                   IF c.reverse[t] < color_index \/ t = item
                                   THEN c.reverse[t]
                                   ELSE c.reverse[t] + 1 ] ],
                 ret |-> TRUE ]
      ELSE [ c |-> c, ret |-> FALSE ]

\* Variant: the bound of the new cell is written over the bound that follows
\* the cell, where there is one, and not inserted before it.
IndividualizeOverBound(c, item) ==
  LET color_index == c.reverse[item]
      color_start == ColorStart(c, color_index)
      color == Cell(c, color_index)
  IN  IF Len(color) > 1
      THEN LET rest == SortSet(SeqSet(color) \ {item})
               split == <<item>> \o rest
           IN  [ c |-> [ c EXCEPT
                   !.elements = Splice(c.elements, color_start,
                                       color_start + Len(color), split),
                   !.bounds = IF color_index < Len(c.bounds)
                              THEN [ c.bounds EXCEPT ![color_index + 1] =
                                       Bound(color_start + 1, c.depth) ]
                              ELSE Append(c.bounds,
                                          Bound(color_start + 1, c.depth)),
                   !.reverse = [ t \in DOMAIN c.reverse |->
                                   IF t = item THEN color_index
                                   ELSE IF t \in SeqSet(color)
                                        THEN color_index + 1
                                        ELSE c.reverse[t] ] ],
                 ret |-> TRUE ]
      ELSE [ c |-> c, ret |-> FALSE ]

\* ReversibleColoring::individualize: [c |-> new coloring, ret |-> bool]
Individualize(c, item) ==
  LET color_index == c.reverse[item]
      color_start == ColorStart(c, color_index)
      color == Cell(c, color_index)
  IN  IF Len(color) > 1
      THEN LET rest == SortSet(SeqSet(color) \ {item})
               split == <<item>> \o rest
           IN  [ c |-> [ c EXCEPT
                   !.elements = Splice(c.elements, color_start,
                                       color_start + Len(color), split),
                   !.bounds = InsertAt(c.bounds, color_index,
                                       Bound(color_start + 1, c.depth)),
                   !.reverse = [ t \in DOMAIN c.reverse |->
                                   IF c.reverse[t] < color_index \/ t = item
                                   THEN c.reverse[t]
                                   ELSE c.reverse[t] + 1 ] ],
                 ret |-> TRUE ]
      ELSE [ c |-> c, ret |-> FALSE ]

\* Variant: the reverse index is left as it was.
DeindividualizeStaleReverse(c, item) ==
  LET color_index == c.reverse[item]
      color == Cell(c, color_index)
  IN  IF Len(color) = 1 /\ color_index < Len(c.bounds)
      THEN LET b == [ c EXCEPT !.bounds = RemoveAt(c.bounds, color_index) ]
               s == ColorStart(b, color_index)
               e == ColorEnd(b, color_index)
               merged == SortSet(SeqSet(Cell(b, color_index)))
           IN  [ c |-> [ b EXCEPT !.elements = Splice(b.elements, s, e, merged) ],
                 ret |-> TRUE ]
      ELSE [ c |-> c, ret |-> FALSE ]

\* Variant: the merged cell is left as it is, not sorted.
DeindividualizeUnsorted(c, item) ==
  LET color_index == c.reverse[item]
      color == Cell(c, color_index)
  IN  IF Len(color) = 1 /\ color_index < Len(c.bounds)
      THEN [ c |-> [ c EXCEPT
               !.bounds = RemoveAt(c.bounds, color_index),
               !.reverse = [ t \in DOMAIN c.reverse |->
                               IF c.reverse[t] <= color_index
                               THEN c.reverse[t]
                               ELSE c.reverse[t] - 1 ] ],
             ret |-> TRUE ]
      ELSE [ c |-> c, ret |-> FALSE ]

\* ReversibleColoring::deindividualize
Deindividualize(c, item) ==
  LET color_index == c.reverse[item]
      color == Cell(c, color_index)
  IN  IF Len(color) = 1 /\ color_index < Len(c.bounds)
      THEN LET b == [ c EXCEPT !.bounds = RemoveAt(c.bounds, color_index) ]
               s == ColorStart(b, color_index)
               e == ColorEnd(b, color_index)
               merged == SortSet(SeqSet(Cell(b, color_index)))
           IN  [ c |-> [ b EXCEPT
                   !.elements = Splice(b.elements, s, e, merged),
                   !.reverse = [ t \in DOMAIN c.reverse |->
                                   IF c.reverse[t] <= color_index
                                   THEN c.reverse[t]
                                   ELSE c.reverse[t] - 1 ] ],
                 ret |-> TRUE ]
      ELSE [ c |-> c, ret |-> FALSE ]

\* ReversibleColoring::begin
Begin(c) == [ c EXCEPT !.depth = c.depth + 1 ]

\* Variant: the bounds are cut at the first one of a depth above d.
RetainDepthUntil(bounds, d) ==
  LET above == { k \in DOMAIN bounds : bounds[k].depth > d }
  IN  IF above = {} THEN bounds
      ELSE SubSeq(bounds, 1, (CHOOSE k \in above : \A j \in above : k <= j) - 1)

\* Vec::retain on the bounds.
RECURSIVE RetainDepth(_, _)
RetainDepth(bounds, d) ==
  IF bounds = <<>> THEN <<>>
  ELSE IF Head(bounds).depth <= d
       THEN <<Head(bounds)>> \o RetainDepth(Tail(bounds), d)
       ELSE RetainDepth(Tail(bounds), d)

\* Variant: only the bounds of a depth below d are kept.
RetainBoundsBelow(c, d) ==
  LET kept == [ c EXCEPT !.bounds = RetainDepth(c.bounds, d - 1) ]
  IN  IF ColoringLen(kept) # ColoringLen(c)
      THEN LET s == SortCells(kept)
           IN  [ s EXCEPT !.reverse =
                   [ t \in DOMAIN c.reverse |-> ScanColorIndexOf(s, t) ] ]
      ELSE kept

\* ReversibleColoring::retain_bounds with the predicate of restore.
RetainBounds(c, d) ==
  LET kept == [ c EXCEPT !.bounds = RetainDepth(c.bounds, d) ]
  IN  IF ColoringLen(kept) # ColoringLen(c)
      THEN LET s == SortCells(kept)
           IN  [ s EXCEPT !.reverse =
                   [ t \in DOMAIN c.reverse |-> ScanColorIndexOf(s, t) ] ]
      ELSE kept

\* Variant: the depth is restored, the bounds are all kept.
RestoreDepthOnly(c, n) == [ c EXCEPT !.depth = c.depth - n ]

\* ReversibleColoring::restore(n), for n <= depth (n > depth underflows).
Restore(c, n) ==
  LET restored_depth == c.depth - n
  IN  [ RetainBounds(c, restored_depth) EXCEPT !.depth = restored_depth ]

\* Variant: the subtraction saturates at 0.
RestoreSaturating(c, n) == [ RetainBounds(c, 0) EXCEPT !.depth = 0 ]

\* ReversibleColoring::restore(n) for n > depth in a build that does not
\* check integer overflow: self.depth - n wraps to 2^64 - (n - depth), which
\* no bound's depth exceeds, so retain_bounds keeps every bound.  The
\* negative depth d stands for the usize 2^64 + d.
RestoreWrapping(c, n) == [ c EXCEPT !.depth = c.depth - n ]

\* is_finer_or_equal_to, from cell k of self on, last_index being the index
\* in other of the cell before: Some(answer), or Nothing where it panics
\* (split_first().unwrap() on a cell of no element, color_index_of(..).unwrap()
\* on an item other does not hold).  The items of cell_rest are looked at in
\* order and `all` stops at the first one whose index differs.
RECURSIVE IsFinerFrom(_, _, _, _)
IsFinerFrom(self, other, k, last_index) ==
  IF k >= ColoringLen(self) THEN Some(TRUE)
  ELSE
    LET cell == Cell(self, k)
    IN  IF cell = <<>> \/ cell[1] \notin DOMAIN other.reverse THEN Nothing
        ELSE
          LET index == other.reverse[cell[1]]
              stops == { p \in 2 .. Len(cell) :
                           \/ cell[p] \notin DOMAIN other.reverse
                           \/ other.reverse[cell[p]] # index }
              p == CHOOSE q \in stops : \A r \in stops : q <= r
          IN  IF index < last_index THEN Some(FALSE)
              ELSE IF stops = {} THEN IsFinerFrom(self, other, k + 1, index)
              ELSE IF cell[p] \notin DOMAIN other.reverse THEN Nothing
              ELSE Some(FALSE)

\* ReversibleColoring::is_finer_or_equal_to.
IsFinerOrEqualTo(self, other) == IsFinerFrom(self, other, 0, 0)

\* ------------------------------------------------------------ refinement
\* refine_with::refine_color on the Rust range a..b.  st is the state the
\* nested function works on: [elements, bounds, reverse, refined, nci] where
\* refined is `refined_colors` and nci is `new_color_index`.
RECURSIVE RefineWindows(_, _, _, _, _, _)
RefineWindows(st, depth, f, a, b, i) ==
  IF i > b - a - 2 THEN st
  ELSE LET w0 == st.elements[a + i + 1]
           w1 == st.elements[a + i + 2]
           cut == f[w0] # f[w1]
           nci == IF cut THEN st.nci + 1 ELSE st.nci
           st1 == [ st EXCEPT
                      !.refined = IF cut THEN Append(@, st.nci) ELSE @,
                      !.nci = nci,
                      !.bounds = IF cut THEN Append(@, Bound(a + i + 1, depth))
                                 ELSE @,
                      !.reverse = [ @ EXCEPT ![w1] = nci ] ]
       IN  RefineWindows(st1, depth, f, a, b, i + 1)

\* The in-place update of refined_colors[..already_refined_len]
\* (coloring.rs:482-495): the first entry equal to old_color_index is
\* rewritten, otherwise the new index is pushed.
UpdateRefined(refined, already_refined_len, old_color_index, new_color_index) ==
  IF old_color_index = new_color_index THEN refined
  ELSE LET hits == { k \in 1 .. already_refined_len :
                       refined[k] = old_color_index }
       IN  IF hits # {}
           THEN LET k == CHOOSE x \in hits : \A y \in hits : x <= y
                IN  [ refined EXCEPT ![k] = new_color_index ]
           ELSE Append(refined, new_color_index)

\* Variant: the range is not sorted by key before the windows are read.
RefineColorKeepOrder(st, depth, already_refined_len, f, a, b, old_color_index) ==
  LET el == st.elements
      st0 == [ st EXCEPT !.reverse = [ @ EXCEPT ![el[a + 1]] = st.nci ] ]
      st1 == RefineWindows(st0, depth, f, a, b, 0)
  IN  [ st1 EXCEPT !.refined =
          UpdateRefined(@, already_refined_len, old_color_index, st1.nci) ]

\* refine_with::refine_color (coloring.rs:451-498).
RefineColor(st, depth, already_refined_len, f, a, b, old_color_index) ==
  LET sorted == SortByKey(SubSeq(st.elements, a + 1, b), f)
      el == Splice(st.elements, a, b, sorted)
      st0 == [ st EXCEPT !.elements = el,
                         !.reverse = [ @ EXCEPT ![el[a + 1]] = st.nci ] ]
      st1 == RefineWindows(st0, depth, f, a, b, 0)
  IN  [ st1 EXCEPT !.refined =
          UpdateRefined(@, already_refined_len, old_color_index, st1.nci) ]

\* The `for end in old_bounds` loop of refine_with; k is the 1-based
\* position in old_bounds, start the running start offset.
RECURSIVE RefineCells(_, _, _, _, _, _, _)
RefineCells(st, depth, already_refined_len, f, old_bounds, k, start) ==
  IF k > Len(old_bounds)
  THEN RefineColor(st, depth, already_refined_len, f, start,
                   Len(st.elements), Len(old_bounds))
  ELSE LET end == old_bounds[k]
           st1 == RefineColor(st, depth, already_refined_len, f, start,
                              end.offset, k - 1)
           st2 == [ st1 EXCEPT !.bounds = Append(@, end), !.nci = @ + 1 ]
       IN  RefineCells(st2, depth, already_refined_len, f, old_bounds,
                       k + 1, end.offset)

\* ReversibleColoring::refine_with:
\*   [c |-> new coloring, refined |-> refined_colors, ret |-> bool]
RefineWith(c, refined_colors, f) ==
  LET st0 == [ elements |-> c.elements, bounds |-> <<>>,
               reverse |-> c.reverse, refined |-> refined_colors, nci |-> 0 ]
      st == RefineCells(st0, c.depth, Len(refined_colors), f, c.bounds, 1, 0)
      out == SortCells([ c EXCEPT !.elements = st.elements,
                                  !.bounds = st.bounds,
                                  !.reverse = st.reverse ])
  IN  [ c |-> out, refined |-> st.refined,
        ret |-> ColoringLen(out) # ColoringLen(c) ]

\* ReversibleColoring::refine
Refine(c, f) ==
  LET r == RefineWith(c, <<>>, f) IN [ c |-> r.c, ret |-> r.ret ]

\* Map::get on a Vec<usize> (usize.rs:46): None past the end of the Vec.
\* map is a sequence; the value of item i is map[i + 1].
MapGet(map, i) == IF i < Len(map) THEN map[i + 1] ELSE None

\* The closure of make_equitable_with (coloring.rs:577-586): Map::map only
\* visits the entries the Vec holds.  neighbors[i] is the sequence of items
\* neighbors(i) yields, an item counted as often as it is yielded.
CountMap(c, map, neighbors, color) ==
  [ p \in DOMAIN map |->
      Cardinality({ q \in DOMAIN neighbors[p - 1] :
                      c.reverse[neighbors[p - 1][q]] = color }) ]

\* One iteration of the while loop of make_equitable_with; es is
\* [c, stack, map].
EquitableStep(es, neighbors) ==
  LET color == es.stack[Len(es.stack)]
      popped == SubSeq(es.stack, 1, Len(es.stack) - 1)
      map == CountMap(es.c, es.map, neighbors, color)
      key == [ i \in DOMAIN es.c.reverse |-> MapGet(map, i) ]
      r == RefineWith(es.c, popped, key)
  IN  [ c |-> r.c, stack |-> r.refined, map |-> map ]

\* The loop condition of make_equitable_with (coloring.rs:571).
EquitableRunning(es) == es.stack # <<>> /\ ~IsDiscrete(es.c)

RECURSIVE EquitableLoop(_, _)
EquitableLoop(es, neighbors) ==
  IF EquitableRunning(es)
  THEN EquitableLoop(EquitableStep(es, neighbors), neighbors)
  ELSE [ es EXCEPT !.stack = <<>> ]

\* stack.clear(); stack.extend(0..self.len())
InitialStack(c) == [ k \in 1 .. ColoringLen(c) |-> k - 1 ]

\* ReversibleColoring::make_equitable_with: [c, stack, map] on return.
MakeEquitableWith(c, map, neighbors) ==
  EquitableLoop([ c |-> c, stack |-> InitialStack(c), map |-> map ], neighbors)

\* ReversibleColoring::make_equitable: the scratch map is set.map(|_| 0),
\* set being the usize handed as the set (the universe 0 .. set - 1).
MakeEquitable(c, set, neighbors) ==
  MakeEquitableWith(c, [ p \in 1 .. set |-> 0 ], neighbors).c

\* ================================================================ state
VARIABLES
  elements,       \* Coloring::elements of the coloring under test
  bounds,         \* Coloring::bounds
  reverse,        \* ReversibleColoring::reverse
  depth,          \* ReversibleColoring::depth
  last,           \* the last call made: its name, arguments and return value
  before,         \* the coloring as it was when the last call was made
  scope,          \* the coloring as it was at the begin() that opened the scope
  stack,          \* make_equitable_with: the worklist `stack`
  map,            \* make_equitable_with: the scratch `map`
  neighbors,      \* make_equitable_with: the `neighbors` closure
  graph,          \* canonize: the structure `self`
  path,           \* tree::Node::path
  automorphisms,  \* canonize: the BTreeMap of leaf images
  pc,             \* position of the caller / of canonize
  result,         \* canonize: the value returned
  first,          \* the value returned by an earlier canonize call
  visited         \* canonize: the paths of the leaves looked at, in order

colVars == <<elements, bounds, reverse, depth>>
eqVars == <<stack, map, neighbors>>
canonVars == <<graph, path, automorphisms, result, first, visited>>
vars == <<elements, bounds, reverse, depth, last, before, scope, stack, map,
          neighbors, graph, path, automorphisms, pc, result, first, visited>>

\* The ReversibleColoring held by the state.
Self == [ elements |-> elements, bounds |-> bounds,
          reverse |-> reverse, depth |-> depth ]

SetSelf(c) ==
  /\ elements' = c.elements
  /\ bounds' = c.bounds
  /\ reverse' = c.reverse
  /\ depth' = c.depth

\* Value of a variable a scenario does not use.
Idle == <<>>

\* ---------------------------------------------------------------- inputs
\* Key functions / initial color maps over the universe.
Keys == [ U -> 0 .. (NKeys - 1) ]

\* Neighbors functions: item -> sequence of items, given by a list of at
\* most MaxEdges pairs <<i, j>> (j is yielded by neighbors(i)); a pair listed
\* twice is a neighbor yielded twice.  The lists are taken in ascending order
\* of the pairs, the order of the pairs of different items being irrelevant.
PairRank(n, e) == e[1] * n + e[2]

EdgeLists(n) ==
  UNION { { E \in [ 1 .. k -> Items(n) \X Items(n) ] :
              \A p \in 1 .. (k - 1) : PairRank(n, E[p]) <= PairRank(n, E[p + 1]) } :
          k \in 0 .. MaxEdges }

NeighborsOf(n, E) ==
  [ i \in Items(n) |->
      LET From(e) == e[1] = i
          mine == SelectSeq(E, From)
      IN  [ q \in DOMAIN mine |-> mine[q][2] ] ]

\* Worklists handed to refine_with: empty, one cell index, or every index.
Touched(c) ==
  {<<>>, InitialStack(c)} \cup { <<i>> : i \in Colors(c) }

\* The colorings ReversibleColoring::from_coloring(Coloring::from_map(..))
\* builds over a universe of n items.
ColorMaps(n) == [ Items(n) -> 0 .. (NKeys - 1) ]

InitialColorings(n) == { FromColoring(n, FromMap(n, m)) : m \in ColorMaps(n) }

\* A call record; undoes is set on a deindividualize(x) made right after an
\* individualize(x) that returned true.  key is the color map handed to
\* from_map or the key function handed to refine and refine_with, touched the
\* worklist handed to refine_with; they are kept for the calls whose result
\* is looked at.
Call(op, item, n, ret) ==
  [ op |-> op, item |-> item, n |-> n, ret |-> ret, undoes |-> FALSE,
    key |-> Idle, touched |-> Idle ]

\* ======================================================================
\* SpecColoring: a ReversibleColoring driven through its public mutations.
\* ======================================================================
InitColoring ==
  /\ \E m \in ColorMaps(N) :
       LET c == FromColoring(N, FromMap(N, m))
       IN  /\ elements = c.elements /\ bounds = c.bounds
           /\ reverse = c.reverse /\ depth = c.depth
           /\ before = c
           /\ last = [ Call("from_coloring", None, 0, TRUE) EXCEPT !.key = m ]
  /\ scope = Idle
  /\ stack = Idle /\ map = Idle /\ neighbors = Idle
  /\ graph = Idle /\ path = Idle /\ automorphisms = Idle
  /\ pc = "coloring" /\ result = Idle /\ first = Idle /\ visited = Idle

IndividualizeCall(item) ==
  LET r == Individualize(Self, item)
  IN  /\ SetSelf(r.c)
      /\ last' = Call("individualize", item, 0, r.ret)
      /\ before' = Self
      /\ UNCHANGED <<scope, eqVars, canonVars, pc>>

DeindividualizeCall(item) ==
  LET r == Deindividualize(Self, item)
  IN  /\ SetSelf(r.c)
      /\ last' = [ Call("deindividualize", item, 0, r.ret) EXCEPT
                     !.undoes = last.op = "individualize" /\ last.ret
                                /\ last.item = item ]
      /\ before' = Self
      /\ UNCHANGED <<scope, eqVars, canonVars, pc>>

BeginCall ==
  /\ depth < MaxDepth
  /\ SetSelf(Begin(Self))
  /\ last' = Call("begin", None, 0, TRUE)
  /\ before' = Self
  /\ UNCHANGED <<scope, eqVars, canonVars, pc>>

RestoreCall(n) ==
  /\ n <= depth
  /\ SetSelf(Restore(Self, n))
  /\ last' = Call("restore", None, n, TRUE)
  /\ before' = Self
  /\ UNCHANGED <<scope, eqVars, canonVars, pc>>

RefineCall(key) ==
  LET r == Refine(Self, key)
  IN  /\ SetSelf(r.c)
      /\ last' = Call("refine", None, 0, r.ret)
      /\ before' = Self
      /\ UNCHANGED <<scope, eqVars, canonVars, pc>>

RefineWithCall(touched, key) ==
  LET r == RefineWith(Self, touched, key)
  IN  /\ SetSelf(r.c)
      /\ last' = Call("refine_with", None, 0, r.ret)
      /\ before' = Self
      /\ UNCHANGED <<scope, eqVars, canonVars, pc>>

MakeEquitableCall(set, nb) ==
  /\ SetSelf(MakeEquitable(Self, set, nb))
  /\ last' = Call("make_equitable", None, 0, TRUE)
  /\ before' = Self
  /\ UNCHANGED <<scope, eqVars, canonVars, pc>>

NextColoring ==
  \/ \E item \in U : IndividualizeCall(item)
  \/ \E item \in U : DeindividualizeCall(item)
  \/ BeginCall
  \/ \E n \in 0 .. MaxDepth : RestoreCall(n)
  \/ \E key \in Keys : RefineCall(key)
  \/ \E key \in Keys : \E touched \in Touched(Self) : RefineWithCall(touched, key)
  \/ \E E \in EdgeLists(N) : MakeEquitableCall(N, NeighborsOf(N, E))

SpecColoring == InitColoring /\ [][NextColoring]_vars

\* P2: every cell is strictly increasing in the item order.
CellsStrictlyIncreasing(c) ==
  \A i \in Colors(c) :
    \A p \in 1 .. (Len(Cell(c, i)) - 1) : Cell(c, i)[p] < Cell(c, i)[p + 1]

\* P4: reverse[u] = i if and only if u lies in cell i.
ReverseAgrees(c) ==
  \A u \in DOMAIN c.reverse : \A i \in Colors(c) :
    (c.reverse[u] = i) <=> (u \in SeqSet(Cell(c, i)))

PublicMutations ==
  { "individualize", "deindividualize", "refine", "refine_with",
    "make_equitable", "restore" }

\* C10: after construction and after every public mutation of a
\* ReversibleColoring, every cell is strictly increasing in the element order
\* and rev[u] = i exactly when u lies in cell i.
C10_SortedAndReverse ==
  (pc = "coloring" /\ last.op \in PublicMutations \cup {"from_coloring"})
    => /\ CellsStrictlyIncreasing(Self)
       /\ ReverseAgrees(Self)
       /\ \A u \in U : reverse[u] \in Colors(Self)

\* C10 witness: a deindividualize that merged a singleton into a cell of at
\* least two other items (so the merged cell had to be re-sorted).
C10_Witness ==
  /\ pc = "coloring"
  /\ last.op = "deindividualize" /\ last.ret
  /\ Len(Cell(Self, reverse[last.item])) >= 3
  /\ Cell(Self, reverse[last.item])[1] # last.item

\* The cells of a coloring, in order, each as the sequence of its items.
CellsOf(c) == [ k \in 1 .. ColoringLen(c) |-> Cell(c, k - 1) ]

\* C12: individualize(x) on an item whose cell i holds more than one item
\* returns true, makes <<x>> the new cell i and the rest of the old cell, in
\* item order, the new cell i+1, and leaves every other cell as it was; on an
\* item alone in its cell it returns false and changes nothing.
C12_IndividualizeSplits ==
  (pc = "coloring" /\ last.op = "individualize") =>
    LET x == last.item
        i == before.reverse[x]
        old == CellsOf(before)
        new == CellsOf(Self)
        Other(y) == y # x
    IN  IF Len(old[i + 1]) > 1
        THEN /\ last.ret
             /\ Len(new) = Len(old) + 1
             /\ new[i + 1] = <<x>>
             /\ new[i + 2] = SelectSeq(old[i + 1], Other)
             /\ \A p \in 1 .. (Len(new[i + 2]) - 1) :
                  new[i + 2][p] < new[i + 2][p + 1]
             /\ \A k \in 1 .. i : new[k] = old[k]
             /\ \A k \in (i + 2) .. Len(old) : new[k + 1] = old[k]
        ELSE ~last.ret /\ Self = before

\* C12 witness: the last item of a cell of three is individualized (the
\* swap puts the first item last, so the rest has to be sorted again).
C12_Witness ==
  /\ pc = "coloring"
  /\ last.op = "individualize" /\ last.ret
  /\ Len(Cell(before, before.reverse[last.item])) >= 3
  /\ Cell(before, before.reverse[last.item])[3] = last.item

\* C32: deindividualize(x) never changes the depth.  When x is not alone in
\* its cell, or its cell is the last one, it returns false and changes
\* nothing; otherwise it returns true, the singleton cell of x and the cell
\* that followed it are one cell holding the items of both in item order,
\* every other cell is as it was, and the reverse index agrees with the cells.
C32_DeindividualizeMerges ==
  (pc = "coloring" /\ last.op = "deindividualize") =>
    LET x == last.item
        i == before.reverse[x]
        old == CellsOf(before)
        new == CellsOf(Self)
    IN  /\ depth = before.depth
        /\ IF Len(old[i + 1]) # 1 \/ i = Len(old) - 1
           THEN ~last.ret /\ Self = before
           ELSE /\ last.ret
                /\ Len(new) = Len(old) - 1
                /\ new[i + 1] = SortSet({x} \cup SeqSet(old[i + 2]))
                /\ \A k \in 1 .. i : new[k] = old[k]
                /\ \A k \in (i + 2) .. Len(new) : new[k] = old[k + 1]
                /\ ReverseAgrees(Self)
                /\ \A u \in U : reverse[u] \in Colors(Self)

\* C32 witness: a singleton cell is merged with the cell that follows it,
\* whose first item is less than x (so the merged cell had to be sorted),
\* and another cell comes after them (so its reverse index had to move).
C32_Witness ==
  /\ pc = "coloring"
  /\ last.op = "deindividualize" /\ last.ret
  /\ Cell(Self, reverse[last.item])[1] < last.item
  /\ ColoringLen(Self) > reverse[last.item] + 1

\* C14: from_map puts two items in the same cell exactly when they have the
\* same color, orders the cells by ascending color, and orders the items of a
\* cell by item.
C14_FromMapClasses ==
  (pc = "coloring" /\ last.op = "from_coloring") =>
    /\ \A u, v \in U :
         /\ (reverse[u] = reverse[v]) <=> (last.key[u] = last.key[v])
         /\ (reverse[u] < reverse[v]) <=> (last.key[u] < last.key[v])
    /\ ReverseAgrees(Self)
    /\ CellsStrictlyIncreasing(Self)

\* C14 witness: a color map that is not monotone in the item: the greatest
\* item has the least color and the other two share a color.
C14_Witness ==
  /\ pc = "coloring"
  /\ last.op = "from_coloring"
  /\ last.key[N - 1] < last.key[0]
  /\ last.key[0] = last.key[1]
  /\ elements[1] = N - 1

\* C28: the depth tag of every bound is at most the current depth, and a
\* restore(k) with k <= depth removes no bound tagged with depth 0.
C28_DepthTags ==
  pc = "coloring" =>
    /\ \A k \in DOMAIN bounds : bounds[k].depth <= depth
    /\ last.op = "restore" =>
         \A k \in DOMAIN before.bounds :
           before.bounds[k].depth = 0 =>
             \E j \in DOMAIN bounds : bounds[j] = before.bounds[k]

\* C28 witness: a restore down to depth 0 has removed a bound of a deeper
\* tag from a coloring that also holds a bound tagged with depth 0.
C28_Witness ==
  /\ pc = "coloring"
  /\ last.op = "restore" /\ last.n >= 1 /\ depth = 0
  /\ Len(bounds) < Len(before.bounds)
  /\ \E k \in DOMAIN bounds : bounds[k].depth = 0

\* k calls of restore(1) in a row.
RECURSIVE RestoreOneByOne(_, _)
RestoreOneByOne(c, k) ==
  IF k = 0 THEN c ELSE RestoreOneByOne(Restore(c, 1), k - 1)

\* C29: restore(k), k <= depth, lowers the depth by k, removes exactly the
\* bounds whose depth tag exceeds the new depth and keeps every other bound,
\* offset and tag, in place; the coloring it leaves is the one k calls of
\* restore(1) leave.
C29_RestoreUnwinds ==
  (pc = "coloring" /\ last.op = "restore") =>
    /\ depth = before.depth - last.n
    /\ bounds = SelectSeq(before.bounds, LAMBDA b : b.depth <= depth)
    /\ Self = RestoreOneByOne(before, last.n)

\* C29 witness: a restore(2) has removed a bound tagged with depth 1 and a
\* bound tagged with depth 2, the two nested scopes at once.
C29_Witness ==
  /\ pc = "coloring"
  /\ last.op = "restore" /\ last.n = 2
  /\ \E j, k \in DOMAIN before.bounds :
       before.bounds[j].depth = 1 /\ before.bounds[k].depth = 2
  /\ bounds = <<>>

\* ======================================================================
\* SpecDomain: a ReversibleColoring over a universe of 0 to N items, built
\* by new or from_map and driven through its public mutations, then one call
\* that reads it (get, as_permutation) or whose argument is outside its
\* domain.  pc is "domain" until that call, then "read", "panicked" (the call
\* panicked) or "wrapped" (restore returned with a wrapped depth).
\* ======================================================================
InitDomain ==
  /\ \E n \in 0 .. N :
       \/ \E c \in InitialColorings(n) :
            /\ elements = c.elements /\ bounds = c.bounds
            /\ reverse = c.reverse /\ depth = c.depth
            /\ before = c
            /\ last = Call("from_coloring", None, 0, TRUE)
       \/ /\ elements = NewColoring(n).elements /\ bounds = NewColoring(n).bounds
          /\ reverse = NewColoring(n).reverse /\ depth = NewColoring(n).depth
          /\ before = NewColoring(n)
          /\ last = Call("new", None, 0, TRUE)
  /\ scope = Idle
  /\ stack = Idle /\ map = Idle /\ neighbors = Idle
  /\ graph = Idle /\ path = Idle /\ automorphisms = Idle
  /\ pc = "domain" /\ result = Idle /\ first = Idle /\ visited = Idle

\* A call that panics before it has changed anything.
Panic(op, item, n) ==
  /\ pc' = "panicked"
  /\ last' = Call(op, item, n, FALSE)
  /\ before' = Self
  /\ UNCHANGED <<colVars, scope, eqVars, canonVars>>

\* individualize(item), item not in the universe: color_index_of(item) is
\* None and the unwrap panics (coloring.rs:327).
IndividualizeAbsent(item) ==
  /\ pc = "domain"
  /\ item \notin DOMAIN reverse
  /\ Panic("individualize", item, 0)

\* refine, refine_with and make_equitable on the empty universe: the last
\* refine_color reads elements[range.start()] of no element
\* (coloring.rs:469).
RefineEmpty(op) ==
  /\ pc = "domain"
  /\ Len(elements) = 0
  /\ Panic(op, None, 0)

\* restore(n), n > depth: self.depth - n (coloring.rs:377) panics where
\* integer overflow is checked and wraps where it is not.
RestoreUnderflow(n) ==
  /\ pc = "domain"
  /\ n > depth
  /\ \/ Panic("restore", None, n)
     \/ /\ SetSelf(RestoreWrapping(Self, n))
        /\ pc' = "wrapped"
        /\ last' = Call("restore", None, n, TRUE)
        /\ before' = Self
        /\ UNCHANGED <<scope, eqVars, canonVars>>

\* get(i), the value returned kept in result.
GetCall(i) ==
  /\ pc = "domain"
  /\ result' = Get(Self, i)
  /\ pc' = "read"
  /\ last' = Call("get", None, i, TRUE)
  /\ before' = Self
  /\ UNCHANGED <<colVars, scope, eqVars, graph, path, automorphisms, first,
                 visited>>

\* as_permutation(), the value returned kept in result.
AsPermutationCall ==
  /\ pc = "domain"
  /\ result' = AsPermutation(Self)
  /\ pc' = "read"
  /\ last' = Call("as_permutation", None, 0, TRUE)
  /\ before' = Self
  /\ UNCHANGED <<colVars, scope, eqVars, graph, path, automorphisms, first,
                 visited>>

NextDomain ==
  \/ pc = "domain" /\ \E item \in DOMAIN reverse : IndividualizeCall(item)
  \/ pc = "domain" /\ \E item \in DOMAIN reverse : DeindividualizeCall(item)
  \/ pc = "domain" /\ BeginCall
  \/ pc = "domain" /\ \E n \in 0 .. MaxDepth : RestoreCall(n)
  \/ pc = "domain" /\ Len(elements) > 0 /\ \E key \in Keys : RefineCall(key)
  \/ pc = "domain" /\ Len(elements) > 0
       /\ \E key \in Keys : \E touched \in Touched(Self) :
            RefineWithCall(touched, key)
  \/ pc = "domain" /\ Len(elements) > 0
       /\ \E set \in 0 .. Len(elements) : \E E \in EdgeLists(Len(elements)) :
            MakeEquitableCall(set, NeighborsOf(Len(elements), E))
  \/ \E item \in Items(N + 1) : IndividualizeAbsent(item)
  \/ \E op \in {"refine", "refine_with", "make_equitable"} : RefineEmpty(op)
  \/ \E n \in 1 .. (MaxDepth + 1) : RestoreUnderflow(n)
  \/ \E i \in 0 .. (N + 1) : GetCall(i)
  \/ AsPermutationCall

SpecDomain == InitDomain /\ [][NextDomain]_vars

\* P1, P3, P5 and the cells being nonempty, for the coloring of the state
\* over the universe its reverse index is defined on.
ColoringInvariants ==
  LET n == Cardinality(DOMAIN reverse)
  IN  /\ Len(elements) = n
      /\ SeqSet(elements) = DOMAIN reverse
      /\ \A k \in DOMAIN bounds : 0 < bounds[k].offset /\ bounds[k].offset <= n
      /\ \A k \in 1 .. (Len(bounds) - 1) :
           bounds[k].offset < bounds[k + 1].offset
      /\ \A i \in Colors(Self) : Len(Cell(Self, i)) >= 1
      /\ ColoringLen(Self) = Len(bounds) + 1

\* C11 as written: whatever the size of the universe, after new or from_map
\* and any public mutations the elements are a permutation of the universe,
\* the bound offsets are strictly increasing in (0, n], every cell is
\* nonempty and len() is the number of bounds plus one.
C11_ColoringInvariants ==
  pc = "domain" => ColoringInvariants

\* C11, amended: the same for a universe of at least one item.
C11_ColoringInvariantsNonemptyUniverse ==
  (pc = "domain" /\ Cardinality(DOMAIN reverse) >= 1) => ColoringInvariants

\* C11 witness: a refine_with inside a scope has split a cell of the full
\* universe into the discrete coloring.
C11_Witness ==
  /\ pc = "domain"
  /\ last.op = "refine_with" /\ last.ret
  /\ depth >= 1
  /\ Len(elements) = N /\ Len(bounds) = N - 1
  /\ ColoringLen(before) = 1

\* C15: as_permutation() returns Some(rev) exactly when every cell is a
\* singleton, and rev is then a bijection from the universe onto 0..n-1 that
\* maps each item to the position of its cell.
C15_AsPermutation ==
  (pc = "read" /\ last.op = "as_permutation") =>
    /\ (result # Nothing) <=> (\A i \in Colors(Self) : Len(Cell(Self, i)) = 1)
    /\ result # Nothing =>
         LET rev == result[1]
         IN  /\ DOMAIN rev = SeqSet(elements)
             /\ { rev[u] : u \in DOMAIN rev } = 0 .. (Len(elements) - 1)
             /\ \A u \in DOMAIN rev : elements[rev[u] + 1] = u

\* C15 witness: as_permutation on a discrete coloring of the full universe
\* that is not the identity.
C15_Witness ==
  /\ pc = "read" /\ last.op = "as_permutation"
  /\ result # Nothing
  /\ Len(elements) = N
  /\ elements[1] = N - 1

\* C16 as written: get(i) with i >= len(), restore(k) with k > depth and
\* individualize(x) with x outside the universe each panic and leave the
\* coloring as it was.
C16_DomainViolationsPanic ==
  /\ (last.op = "get" /\ last.n >= ColoringLen(before)) =>
       pc = "panicked" /\ Self = before
  /\ (last.op = "restore" /\ last.n > before.depth) =>
       pc = "panicked" /\ Self = before
  /\ (last.op = "individualize" /\ last.item \notin DOMAIN before.reverse) =>
       pc = "panicked" /\ Self = before

\* C16, amended: individualize(x) with x outside the universe panics and
\* leaves the coloring as it was; restore(k) with k > depth either panics
\* (integer overflow checked) or returns with every bound kept and the depth
\* wrapped around (not checked); get(i) with i >= len() does not panic: it
\* returns None and leaves the coloring as it was.
C16_DomainViolations ==
  /\ (last.op = "get" /\ last.n >= ColoringLen(before)) =>
       pc = "read" /\ result = Nothing /\ Self = before
  /\ (last.op = "restore" /\ last.n > before.depth) =>
       \/ pc = "panicked" /\ Self = before
       \/ /\ pc = "wrapped"
          /\ elements = before.elements /\ bounds = before.bounds
          /\ reverse = before.reverse
          /\ depth < 0 /\ depth = before.depth - last.n
  /\ (last.op = "individualize" /\ last.item \notin DOMAIN before.reverse) =>
       pc = "panicked" /\ Self = before

\* C16 witness: restore(k), k > depth, has returned on a coloring that has a
\* bound made inside a scope.
C16_Witness ==
  /\ pc = "wrapped"
  /\ last.op = "restore" /\ last.n > before.depth
  /\ \E k \in DOMAIN bounds : bounds[k].depth >= 1

\* C17: get(i) returns the i-th cell, the elements from bound i-1 (or the
\* start) to bound i (or the end), for every i < len(), and None for every
\* i >= len().
C17_GetCell ==
  (pc = "read" /\ last.op = "get") =>
    LET i == last.n
        lo == IF i = 0 THEN 0 ELSE bounds[i].offset
        hi == IF i = Len(bounds) THEN Len(elements) ELSE bounds[i + 1].offset
    IN  IF i < Len(bounds) + 1
        THEN result = Some([ p \in 1 .. (hi - lo) |-> elements[lo + p] ])
        ELSE result = Nothing

\* C17 witness: get(len()) on a coloring of several cells.
C17_Witness ==
  /\ pc = "read" /\ last.op = "get"
  /\ last.n = Len(bounds) + 1
  /\ Len(bounds) >= 1
  /\ result = Nothing

\* C31: refinement is monotone.  After an individualize, refine, refine_with
\* or make_equitable that returned, every cell of the coloring lies inside
\* one cell of the coloring before the call and the cells of the new coloring
\* meet the old cells in non-decreasing order of old cell index; after a
\* restore that returned, the same holds of the coloring before the call
\* with respect to the restored one.  Wherever the universe has an item,
\* is_finer_or_equal_to answers true on the same pair.
C31_RefinementMonotone ==
  LET CellItems(c, i) == SeqSet(Cell(c, i))
      CellAround(c, x) == CHOOSE j \in Colors(c) : x \in CellItems(c, j)
      Inside(new, old) ==
        \A i \in Colors(new) :
          \E j \in Colors(old) : CellItems(new, i) \subseteq CellItems(old, j)
      InOrder(new, old) ==
        \A i, k \in Colors(new) :
          i < k => \A x \in CellItems(new, i) : \A y \in CellItems(new, k) :
                     CellAround(old, x) <= CellAround(old, y)
      Finer(new, old) ==
        /\ Inside(new, old)
        /\ InOrder(new, old)
        /\ Len(new.elements) > 0 => IsFinerOrEqualTo(new, old) = Some(TRUE)
  IN  pc = "domain" =>
        /\ last.op \in {"individualize", "refine", "refine_with",
                        "make_equitable"}
             => Finer(Self, before)
        /\ last.op = "restore" => Finer(before, Self)

\* C31 witness: a restore has merged cells of a coloring that keeps several
\* cells.
C31_Witness ==
  /\ pc = "domain"
  /\ last.op = "restore"
  /\ ColoringLen(Self) >= 2
  /\ ColoringLen(before) >= ColoringLen(Self) + 1

\* ======================================================================
\* SpecRefine: a ReversibleColoring driven through its public mutations,
\* then one call of refine or refine_with whose arguments and resulting
\* worklist are kept.
\* ======================================================================
RefineApplied(key) ==
  LET r == Refine(Self, key)
  IN  /\ pc = "coloring"
      /\ SetSelf(r.c)
      /\ last' = [ Call("refine", None, 0, r.ret) EXCEPT !.key = key ]
      /\ before' = Self
      /\ pc' = "applied"
      /\ UNCHANGED <<scope, eqVars, canonVars>>

\* stack holds refined_colors as the call leaves it.
RefineWithApplied(touched, key) ==
  LET r == RefineWith(Self, touched, key)
  IN  /\ pc = "coloring"
      /\ SetSelf(r.c)
      /\ last' = [ Call("refine_with", None, 0, r.ret) EXCEPT
                     !.key = key, !.touched = touched ]
      /\ before' = Self
      /\ stack' = r.refined
      /\ pc' = "applied"
      /\ UNCHANGED <<scope, map, neighbors, canonVars>>

NextRefine ==
  \/ pc = "coloring" /\ NextColoring
  \/ \E key \in Keys : RefineApplied(key)
  \/ \E key \in Keys : \E touched \in Touched(Self) :
       RefineWithApplied(touched, key)

SpecRefine == InitColoring /\ [][NextRefine]_vars

\* The classes of equal key of a cell, in ascending order of the key.
KeyClasses(cell, key) ==
  LET ks == SortSet({ key[x] : x \in SeqSet(cell) })
  IN  [ j \in 1 .. Len(ks) |-> { x \in SeqSet(cell) : key[x] = ks[j] } ]

\* The classes of the cells k, k+1, .. of a sequence of cells, cell by cell.
RECURSIVE SplitByKey(_, _, _)
SplitByKey(cells, key, k) ==
  IF k > Len(cells) THEN <<>>
  ELSE KeyClasses(cells[k], key) \o SplitByKey(cells, key, k + 1)

\* C13: refine(key) splits every cell on its own into its classes of equal
\* key, in ascending order of the key, keeps the cells in their order and
\* merges nothing, and returns true exactly when the number of cells grew.
C13_RefineSplitsByKey ==
  (pc = "applied" /\ last.op = "refine") =>
    /\ [ k \in 1 .. ColoringLen(Self) |-> SeqSet(Cell(Self, k - 1)) ]
         = SplitByKey(CellsOf(before), last.key, 1)
    /\ last.ret <=> (ColoringLen(Self) > ColoringLen(before))

\* C13 witness: a coloring of several cells is refined and a cell splits
\* against the item order (a greater key on the lesser item).
C13_Witness ==
  /\ pc = "applied"
  /\ last.op = "refine" /\ last.ret
  /\ ColoringLen(before) >= 2
  /\ \E u, v \in U :
       /\ u < v /\ before.reverse[u] = before.reverse[v]
       /\ last.key[u] > last.key[v]

\* C20: after refine_with(touched, key), touched holds the new index of every
\* sub-cell of every cell that split, and for every cell whose old index was
\* in touched before the call it holds the new index of that cell (of its
\* last sub-cell).
C20_WorklistCoverage ==
  (pc = "applied" /\ last.op = "refine_with") =>
    \A i \in Colors(before) :
      LET J == { reverse[x] : x \in SeqSet(Cell(before, i)) }
          jm == CHOOSE j \in J : \A k \in J : k <= j
      IN  /\ Cardinality(J) > 1 => J \subseteq SeqSet(stack)
          /\ i \in SeqSet(last.touched) => jm \in SeqSet(stack)

\* C21: every index refine_with(touched, key) adds to touched (the entries
\* past the length touched had before the call) is the new index of a
\* sub-cell of a cell that the call split; the index of a cell that did not
\* split is not added, even when that index changed.
C21_UnsplitNotAdded ==
  (pc = "applied" /\ last.op = "refine_with") =>
    \A k \in (Len(last.touched) + 1) .. Len(stack) :
      LET x == Cell(Self, stack[k])[1]
          i == before.reverse[x]
          J == { reverse[y] : y \in SeqSet(Cell(before, i)) }
      IN  Cardinality(J) > 1

\* ======================================================================
\* The structure of src/tests/rdf.rs: a gRDF graph over bool values whose
\* variables 0..variable_count-1 are the permutable elements.
\* ======================================================================
\* Term<bool>: Value(v) < Var(x) in the derived order; false is 0.
Value(v) == <<0, v>>
Var(x) == <<1, x>>
IsVar(t) == t[1] = 1

\* The ground values of the drawn graphs: the bool false (0) and true (1).
Values == {0, 1}

Terms(n) == { Value(v) : v \in Values } \cup { Var(x) : x \in Items(n) }

\* rdf_types::Triple(s, p, o) as a tuple.
Triples(n) == Terms(n) \X Terms(n) \X Terms(n)

\* Graph: [triples, variable_count] (make_graph).
MakeGraph(variable_count, triples) ==
  [ triples |-> triples, variable_count |-> variable_count ]

\* The subsets of S of at most k elements.
RECURSIVE SubsetsUpTo(_, _)
SubsetsUpTo(S, k) ==
  IF k = 0 THEN {{}}
  ELSE LET R == SubsetsUpTo(S, k - 1)
       IN  R \cup { T \cup {t} : T \in R, t \in S }

\* The triples that link two variables by the ground predicate false.
EdgeTriples(n) ==
  { <<Var(x), Value(0), Var(y)>> : x \in Items(n), y \in Items(n) }

\* The graphs canonize is called on.
Graphs ==
  { MakeGraph(NVars, T) : T \in SubsetsUpTo(Triples(NVars), MaxTriples) }
    \cup { MakeGraph(NEdgeVars, T) :
             T \in SubsetsUpTo(EdgeTriples(NEdgeVars), MaxEdgeTriples) }

\* Variant: a morphism that is not injective on the variables.
TermApplyMorphismHalved(t, f) == IF IsVar(t) THEN Var(f[t[2]] \div 2) ELSE t

\* Term::apply_morphism
TermApplyMorphism(t, f) == IF IsVar(t) THEN Var(f[t[2]]) ELSE t

\* Graph::apply_morphism
ApplyMorphism(g, f) ==
  MakeGraph(g.variable_count,
            { << TermApplyMorphism(t[1], f), TermApplyMorphism(t[2], f),
                 TermApplyMorphism(t[3], f) >> : t \in g.triples })

\* enum Color<T>: position of the variant in the declaration (rdf.rs:204-238)
\* followed by its payload, packed so that the integer order is the derived
\* order of the enum.
ColorCode(variant, a, b) == variant * 4 + a * 2 + b

XXX == 0
XYY == 1
YXY == 2
YYX == 3
XXY == 4
XYX == 5
YXX == 6
XYZ == 7
YXZ == 8
YZX == 9
XXV == 10
XVX == 11
VXX == 12
XYV == 13
XVY == 14
YXV == 15
VXY == 16
YVX == 17
VYX == 18
XVV == 19
VXV == 20
VVX == 21

\* The color the match of initial_coloring pushes for item on triple t, or
\* None when the triple pushes nothing for that item.
TripleColor(t, item) ==
  LET s == t[1]  p == t[2]  o == t[3]
      x == s[2]  y == p[2]  z == o[2]
  IN  IF IsVar(s) /\ IsVar(p) /\ IsVar(o) THEN
        IF x = y /\ y = z THEN (IF item = x THEN ColorCode(XXX, 0, 0) ELSE None)
        ELSE IF x = y THEN
          (IF item = x THEN ColorCode(XXY, 0, 0)
           ELSE IF item = z THEN ColorCode(YYX, 0, 0) ELSE None)
        ELSE IF y = z THEN
          (IF item = x THEN ColorCode(XYY, 0, 0)
           ELSE IF item = z THEN ColorCode(YXX, 0, 0) ELSE None)
        ELSE IF x = z THEN
          (IF item = x THEN ColorCode(XYX, 0, 0)
           ELSE IF item = y THEN ColorCode(YXY, 0, 0) ELSE None)
        ELSE
          (IF item = x THEN ColorCode(XYZ, 0, 0)
           ELSE IF item = y THEN ColorCode(YXZ, 0, 0)
           ELSE IF item = z THEN ColorCode(YZX, 0, 0) ELSE None)
      ELSE IF IsVar(s) /\ IsVar(p) THEN
        IF x = y THEN (IF item = x THEN ColorCode(XXV, z, 0) ELSE None)
        ELSE (IF item = x THEN ColorCode(XYV, z, 0)
              ELSE IF item = y THEN ColorCode(YXV, z, 0) ELSE None)
      ELSE IF IsVar(s) /\ IsVar(o) THEN
        IF x = z THEN (IF item = x THEN ColorCode(XVX, y, 0) ELSE None)
        ELSE (IF item = x THEN ColorCode(XVY, y, 0)
              ELSE IF item = z THEN ColorCode(YVX, y, 0) ELSE None)
      ELSE IF IsVar(p) /\ IsVar(o) THEN
        IF y = z THEN (IF item = y THEN ColorCode(VXX, x, 0) ELSE None)
        ELSE (IF item = y THEN ColorCode(VXY, x, 0)
              ELSE IF item = z THEN ColorCode(VYX, x, 0) ELSE None)
      ELSE IF IsVar(s) THEN (IF item = x THEN ColorCode(XVV, y, z) ELSE None)
      ELSE IF IsVar(p) THEN (IF item = y THEN ColorCode(VXV, x, z) ELSE None)
      ELSE IF IsVar(o) THEN (IF item = z THEN ColorCode(VVX, x, y) ELSE None)
      ELSE None

\* The sorted Vec<Color> of one item: the colors pushed by the triples of T,
\* in ascending order (color.sort_unstable()).
RECURSIVE SortedColors(_, _)
SortedColors(T, item) ==
  IF T = {} THEN <<>>
  ELSE LET m == CHOOSE t \in T :
                  \A u \in T : TripleColor(t, item) <= TripleColor(u, item)
       IN  <<TripleColor(m, item)>> \o SortedColors(T \ {m}, item)

\* Lexicographic order of Vec<_> / of iterators (a strict prefix is less).
RECURSIVE SeqLess(_, _)
SeqLess(a, b) ==
  IF b = <<>> THEN FALSE
  ELSE IF a = <<>> THEN TRUE
  ELSE IF Head(a) # Head(b) THEN Head(a) < Head(b)
  ELSE SeqLess(Tail(a), Tail(b))

\* A Set::Map over 0..n-1 (a Vec<V>) filled with f[0], .., f[n-1], as a
\* function of the item.
RECURSIVE VecOf(_, _)
VecOf(f, n) == IF n = 0 THEN <<>> ELSE Append(VecOf(f, n - 1), f[n - 1])

AsMap(v) == [ item \in Items(Len(v)) |-> v[item + 1] ]

\* Graph::initial_coloring: item -> sorted Vec<Color>.
InitialColoring(g) ==
  AsMap(VecOf([ item \in Items(g.variable_count) |->
                  SortedColors({ t \in g.triples : TripleColor(t, item) # None },
                               item) ],
              g.variable_count))

\* The position of each item's color among the colors in use: the order and
\* the equalities Coloring::from_map reads from the color map.
ColorRank(colors) ==
  AsMap(VecOf([ item \in DOMAIN colors |->
                  Cardinality({ colors[j] :
                                  j \in { k \in DOMAIN colors :
                                            SeqLess(colors[k], colors[item]) } }) ],
              Cardinality(DOMAIN colors)))

\* Graph::initialize_cache: the neighbors sets, each a BTreeSet read in
\* ascending order (stack and map start empty).
CacheNeighbors(g) ==
  [ item \in Items(g.variable_count) |->
      SortSet({ j \in Items(g.variable_count) :
          \E t \in g.triples :
            LET s == t[1]  p == t[2]  o == t[3]
            IN  \/ /\ IsVar(s) /\ IsVar(p) /\ IsVar(o)
                   /\ \/ item = s[2] /\ j \in {p[2], o[2]}
                      \/ item = p[2] /\ j \in {s[2], o[2]}
                      \/ item = o[2] /\ j \in {s[2], p[2]}
                \/ /\ IsVar(s) /\ IsVar(p) /\ ~IsVar(o)
                   /\ \/ item = s[2] /\ j = p[2]
                      \/ item = p[2] /\ j = s[2]
                \/ /\ IsVar(s) /\ ~IsVar(p) /\ IsVar(o)
                   /\ \/ item = s[2] /\ j = o[2]
                      \/ item = o[2] /\ j = s[2]
                \/ /\ ~IsVar(s) /\ IsVar(p) /\ IsVar(o)
                   /\ \/ item = p[2] /\ j = o[2]
                      \/ item = o[2] /\ j = p[2] }) ]

\* Graph::refine_coloring: make_equitable_with on the cache's stack and map.
\* cache is [stack, map, neighbors]; returns [c, cache].
Refined(cache, r) ==
  [ c |-> r.c, cache |-> [ cache EXCEPT !.stack = r.stack, !.map = r.map ] ]

RefineColoring(cache, c) ==
  Refined(cache, MakeEquitableWith(c, cache.map, cache.neighbors))

\* The derived Ord of Graph compares the grdf::BTreeGraph first: a
\* BTreeMap<S, BTreeMap<P, BTreeSet<O>>> compared as nested ordered
\* iterators.  TermRank is the derived order of Term; End closes a group and
\* is less than every term, as a shorter iterator is less.
TermRank(t) == t[1] * 8 + t[2] + 1
End == 0

MinTerm(S) == CHOOSE t \in S : \A u \in S : TermRank(t) <= TermRank(u)

RECURSIVE ObjectTokens(_)
ObjectTokens(O) ==
  IF O = {} THEN <<End>>
  ELSE LET o == MinTerm(O) IN <<TermRank(o)>> \o ObjectTokens(O \ {o})

RECURSIVE PredicateTokens(_, _)
PredicateTokens(T, P) ==
  IF P = {} THEN <<End>>
  ELSE LET p == MinTerm(P)
       IN  <<TermRank(p)>> \o ObjectTokens({ t[3] : t \in { u \in T : u[2] = p } })
             \o PredicateTokens(T, P \ {p})

RECURSIVE SubjectTokens(_, _)
SubjectTokens(T, S) ==
  IF S = {} THEN <<End>>
  ELSE LET s == MinTerm(S)
           Ts == { t \in T : t[1] = s }
       IN  <<TermRank(s)>> \o PredicateTokens(Ts, { t[2] : t \in Ts })
             \o SubjectTokens(T, S \ {s})

GraphTokens(g) == SubjectTokens(g.triples, { t[1] : t \in g.triples })

\* Ord for Graph (rdf.rs:34): graph first, then variable_count.
GraphLess(g, h) ==
  \/ SeqLess(GraphTokens(g), GraphTokens(h))
  \/ g.triples = h.triples /\ g.variable_count < h.variable_count

\* ======================================================================
\* The search tree (src/src/tree.rs) and Canonize::canonize (src/src/lib.rs).
\* A node is [path, coloring]; the cache is [stack, map, neighbors].
\* ======================================================================
\* Node::root
Root(coloring) == [ path |-> <<>>, coloring |-> coloring ]

\* Variant: the index of the last cell of more than one item.
ChildrenColorLast(node) ==
  LET big == { i \in Colors(node.coloring) : Len(Cell(node.coloring, i)) > 1 }
  IN  IF big = {} THEN None
      ELSE CHOOSE i \in big : \A j \in big : j <= i

\* Variant: the index of the second cell of more than one item where there
\* are two, of the only one otherwise.
ChildrenColorSecond(node) ==
  LET big == { i \in Colors(node.coloring) : Len(Cell(node.coloring, i)) > 1 }
  IN  IF big = {} THEN None
      ELSE CHOOSE i \in big :
             Cardinality({ j \in big : j < i }) = IF Cardinality(big) > 1 THEN 1 ELSE 0

\* Node::children_color: the index of the first cell of more than one item,
\* or None.
ChildrenColor(node) ==
  LET big == { i \in Colors(node.coloring) : Len(Cell(node.coloring, i)) > 1 }
  IN  IF big = {} THEN None
      ELSE CHOOSE i \in big : \A j \in big : i <= j

\* Variant: the coloring is restored, the path is left as it is.
NodeRestoreColoringOnly(node, n) ==
  [ path |-> node.path, coloring |-> Restore(node.coloring, n) ]

\* Node::restore
NodeRestore(node, n) ==
  [ path |-> SubSeq(node.path, 1, Len(node.path) - n),
    coloring |-> Restore(node.coloring, n) ]

\* Node::individualize with the canonizer's refine closure
\* (|coloring| self.refine_coloring(&mut cache, coloring)):
\* [node, cache, handed], handed being the coloring the closure was called on.
Individualized(node, child, handed, r) ==
  [ node |-> [ path |-> Append(node.path, child), coloring |-> r.c ],
    cache |-> r.cache,
    handed |-> handed ]

\* refine(&mut self.coloring); self.path.push(child) (tree.rs:65-66).
Hooked(node, cache, child, c) ==
  Individualized(node, child, c, RefineColoring(cache, c))

NodeIndividualize(node, cache, child) ==
  Hooked(node, cache, child, Individualize(Begin(node.coloring), child).c)

\* longest_common_prefix_len
RECURSIVE LongestCommonPrefixLen(_, _)
LongestCommonPrefixLen(a, b) ==
  IF a = <<>> \/ b = <<>> THEN 0
  ELSE IF Head(a) = Head(b) THEN 1 + LongestCommonPrefixLen(Tail(a), Tail(b))
  ELSE 0

\* Variant: the key of the entry whose leaf was reached first.
FirstKeyByPath(m) ==
  CHOOSE g \in DOMAIN m : \A h \in DOMAIN m : ~SeqLess(m[h].path, m[g].path)

\* Variant: the greatest key.
FirstKeyGreatest(m) ==
  CHOOSE g \in DOMAIN m : \A h \in DOMAIN m : ~GraphLess(g, h)

\* The first entry of the BTreeMap: its least key.
FirstKey(m) == CHOOSE g \in DOMAIN m : \A h \in DOMAIN m : ~GraphLess(h, g)

\* Variant: the least key with the permutation of the greatest key.
FirstEntryOtherPermutation(m) ==
  [ image |-> FirstKey(m), permutation |-> m[FirstKeyGreatest(m)].permutation ]

\* automorphisms.into_iter().next().unwrap(), returned as (image, permutation).
FirstEntry(m) ==
  [ image |-> FirstKey(m), permutation |-> m[FirstKey(m)].permutation ]

\* The node and the cache held by the state.
NodeSelf == [ path |-> path, coloring |-> Self ]
CacheSelf == [ stack |-> stack, map |-> map, neighbors |-> neighbors ]

SetNode(node) == SetSelf(node.coloring) /\ path' = node.path

SetCache(cache) ==
  /\ stack' = cache.stack
  /\ map' = cache.map
  /\ neighbors' = cache.neighbors

\* The state after Node::individualize; last and before keep the call of the
\* refine closure it made: the child individualized and the coloring handed
\* to refine_coloring.
SetNodeAndCache(r) ==
  /\ SetNode(r.node)
  /\ SetCache(r.cache)
  /\ last' = Call("refine_coloring", r.node.path[Len(r.node.path)], 0, TRUE)
  /\ before' = r.handed

\* canonize up to the construction of the root node (lib.rs:76-82).
CanonizeEnter(g) ==
  LET n == g.variable_count
      c == FromColoring(n, FromMap(n, ColorRank(InitialColoring(g))))
  IN  /\ graph = g
      /\ elements = c.elements /\ bounds = c.bounds
      /\ reverse = c.reverse /\ depth = c.depth
      /\ path = <<>>
      /\ stack = <<>> /\ map = <<>> /\ neighbors = CacheNeighbors(g)
      /\ automorphisms = <<>>
      /\ pc = "descend" /\ result = Idle /\ visited = <<>>
      /\ last = Idle /\ before = Idle /\ scope = Idle

InitCanon ==
  /\ \E g \in Graphs : CanonizeEnter(g)
  /\ first = Idle

\* Variant: the last member of the children color is individualized.
DescendLast ==
  /\ pc = "descend"
  /\ ChildrenColor(NodeSelf) # None
  /\ SetNodeAndCache(NodeIndividualize(NodeSelf, CacheSelf,
       Cell(Self, ChildrenColor(NodeSelf))[
         Len(Cell(Self, ChildrenColor(NodeSelf)))]))
  /\ UNCHANGED <<graph, automorphisms, pc, result, first, visited, scope>>

\* One turn of the descent loop (tree.rs:75-78 and 100-104).
Descend ==
  /\ pc = "descend"
  /\ ChildrenColor(NodeSelf) # None
  /\ SetNodeAndCache(NodeIndividualize(NodeSelf, CacheSelf,
                                       Cell(Self, ChildrenColor(NodeSelf))[1]))
  /\ UNCHANGED <<graph, automorphisms, pc, result, first, visited, scope>>

\* The image of the leaf held by the state (lib.rs:94-95).
Morphed == ApplyMorphism(graph, Unwrap(AsPermutation(Self)))

\* A leaf whose image is new (lib.rs:116-121).
LeafVacant ==
  /\ pc = "descend"
  /\ ChildrenColor(NodeSelf) = None
  /\ AsPermutation(Self) # Nothing
  /\ Morphed \notin DOMAIN automorphisms
  /\ automorphisms' =
       [ g \in DOMAIN automorphisms \cup {Morphed} |->
           IF g = Morphed
           THEN [ path |-> path, permutation |-> Unwrap(AsPermutation(Self)) ]
           ELSE automorphisms[g] ]
  /\ visited' = Append(visited, path)
  /\ pc' = "next"
  /\ UNCHANGED <<colVars, path, eqVars, graph, result, first, last, before, scope>>

\* Variant: every level is given up, back to the root.
PruneLevelsToRoot(leaf_path, entry_path) == Len(leaf_path)

\* The number of levels a leaf with a known image gives up (lib.rs:103-114).
PruneLevels(leaf_path, entry_path) ==
  Len(leaf_path) - LongestCommonPrefixLen(leaf_path, entry_path) - 1

\* Variant: the entry of the image is overwritten with the new leaf.
LeafOccupiedOverwriting ==
  /\ pc = "descend"
  /\ ChildrenColor(NodeSelf) = None
  /\ AsPermutation(Self) # Nothing
  /\ Morphed \in DOMAIN automorphisms
  /\ automorphisms' =
       [ automorphisms EXCEPT
           ![Morphed] = [ path |-> path,
                          permutation |-> Unwrap(AsPermutation(Self)) ] ]
  /\ SetNode(NodeRestore(NodeSelf,
                         PruneLevels(path, automorphisms[Morphed].path)))
  /\ visited' = Append(visited, path)
  /\ pc' = "next"
  /\ UNCHANGED <<eqVars, graph, result, first, last, before, scope>>

\* A leaf whose image was seen before (lib.rs:97-115).
LeafOccupied ==
  /\ pc = "descend"
  /\ ChildrenColor(NodeSelf) = None
  /\ AsPermutation(Self) # Nothing
  /\ Morphed \in DOMAIN automorphisms
  /\ SetNode(NodeRestore(NodeSelf,
                         PruneLevels(path, automorphisms[Morphed].path)))
  /\ visited' = Append(visited, path)
  /\ pc' = "next"
  /\ UNCHANGED <<eqVars, graph, automorphisms, result, first, last, before, scope>>

\* Node::into_next_leaf up to the choice of the next sibling: the node after
\* path.pop() and restore(1), and the index of the next sibling in its cell.
Popped == NodeRestore(NodeSelf, 1)
PoppedCell == Cell(Popped.coloring, Popped.coloring.reverse[path[Len(path)]])

\* Variant: the sibling after the next one.
NextSiblingIndexSkipping == PosIn(PoppedCell, path[Len(path)]) + 2

NextSiblingIndex == PosIn(PoppedCell, path[Len(path)]) + 1

\* into_next_leaf, a next sibling exists (tree.rs:95-98).
NextSibling ==
  /\ pc = "next"
  /\ path # <<>>
  /\ NextSiblingIndex < Len(PoppedCell)
  /\ SetNodeAndCache(NodeIndividualize(Popped, CacheSelf,
                                       PoppedCell[NextSiblingIndex + 1]))
  /\ pc' = "descend"
  /\ UNCHANGED <<graph, automorphisms, result, first, visited, scope>>

\* into_next_leaf, no sibling is left: move to the parent (tree.rs:108-112).
NextParent ==
  /\ pc = "next"
  /\ path # <<>>
  /\ NextSiblingIndex >= Len(PoppedCell)
  /\ SetNode(Popped)
  /\ UNCHANGED <<eqVars, graph, automorphisms, pc, result, first, visited, last, before, scope>>

\* into_next_leaf returns None at the root; canonize returns (lib.rs:127-128).
Return ==
  /\ pc = "next"
  /\ path = <<>>
  /\ result' = FirstEntry(automorphisms)
  /\ pc' = "done"
  /\ UNCHANGED <<colVars, path, eqVars, graph, automorphisms, first, visited, last, before, scope>>

NextCanon ==
  \/ Descend
  \/ LeafVacant
  \/ LeafOccupied
  \/ NextSibling
  \/ NextParent
  \/ Return

\* SpecCanon: one call of canonize on a drawn graph.
SpecCanon == InitCanon /\ [][NextCanon]_vars

\* The permutations of 0..n-1, as maps item -> index.
Bijections(n) ==
  { f \in [ Items(n) -> Items(n) ] : \A i, j \in Items(n) : f[i] = f[j] => i = j }

\* The images of g under the permutations of its universe.
Relabelings(g) ==
  { ApplyMorphism(g, sigma) : sigma \in Bijections(g.variable_count) }

\* A second call of canonize, on a relabeling of the graph of the first.
CanonizeRelabeled ==
  /\ pc = "done"
  /\ first = Idle
  /\ \E h \in Relabelings(graph) :
       /\ graph' = h
       /\ SetSelf(FromColoring(h.variable_count,
                               FromMap(h.variable_count,
                                       ColorRank(InitialColoring(h)))))
       /\ neighbors' = CacheNeighbors(h)
       /\ first' = [ image |-> result.image, relabeled |-> h # graph ]
  /\ path' = <<>>
  /\ stack' = <<>> /\ map' = <<>>
  /\ automorphisms' = <<>>
  /\ pc' = "descend"
  /\ result' = Idle
  /\ visited' = <<>>
  /\ last' = Idle /\ before' = Idle
  /\ UNCHANGED scope

NextIso ==
  \/ NextCanon
  \/ CanonizeRelabeled

\* SpecIso: canonize on a drawn graph, then on a relabeling of it.
SpecIso == InitCanon /\ [][NextIso]_vars

\* ======================================================================
\* SpecGround: canonize on graphs of every size from no variable at all (an
\* empty universe of permutable elements, ground triples only) to NVars
\* variables.
\* ======================================================================
\* The graphs of at most MaxSmallTriples triples over 0 to NVars variables.
SmallGraphs ==
  UNION { { MakeGraph(n, T) : T \in SubsetsUpTo(Triples(n), MaxSmallTriples) } :
            n \in 0 .. NVars }

InitGround ==
  /\ \E g \in SmallGraphs : CanonizeEnter(g)
  /\ first = Idle

\* n.coloring().as_permutation().unwrap() on None (lib.rs:94): canonize
\* panics.
UnwrapNone ==
  /\ pc = "descend"
  /\ ChildrenColor(NodeSelf) = None
  /\ AsPermutation(Self) = Nothing
  /\ pc' = "panicked"
  /\ UNCHANGED <<colVars, path, eqVars, graph, automorphisms, result, first,
                 visited, last, before, scope>>

NextGround ==
  \/ NextCanon
  \/ UnwrapNone

SpecGround == InitGround /\ [][NextGround]_vars

\* ======================================================================
\* SpecWalk: the leaf walk alone, into_first_child_leaf on the root and then
\* into_next_leaf until it returns None, with the canonizer's refine closure
\* and no pruning restore between the calls.
\* ======================================================================
\* into_first_child_leaf / into_next_leaf returns a leaf (tree.rs:80, 106).
LeafReturned ==
  /\ pc = "descend"
  /\ ChildrenColor(NodeSelf) = None
  /\ visited' = Append(visited, path)
  /\ pc' = "next"
  /\ UNCHANGED <<colVars, path, eqVars, graph, automorphisms, result, first,
                 last, before, scope>>

\* into_next_leaf returns None: path.pop()? on the empty path (tree.rs:88).
WalkEnd ==
  /\ pc = "next"
  /\ path = <<>>
  /\ pc' = "done"
  /\ UNCHANGED <<colVars, path, eqVars, graph, automorphisms, result, first,
                 visited, last, before, scope>>

NextWalk ==
  \/ Descend
  \/ LeafReturned
  \/ NextSibling
  \/ NextParent
  \/ WalkEnd

SpecWalk == InitCanon /\ [][NextWalk]_vars

\* ----------------------------------------------------------------------
\* Claims about canonize.
\* ----------------------------------------------------------------------
\* The leaves of the complete search tree below a node: every member of the
\* children color is individualized in turn, nothing is skipped.
RECURSIVE LeavesBelow(_)
LeavesBelow(r) ==
  IF ChildrenColor(r.node) = None THEN {r.node}
  ELSE UNION { LeavesBelow(NodeIndividualize(r.node, r.cache, x)) :
                 x \in SeqSet(Cell(r.node.coloring, ChildrenColor(r.node))) }

\* The leaves of the complete search tree of g.
RootOf(g) ==
  [ node |-> Root(FromColoring(g.variable_count,
                               FromMap(g.variable_count,
                                       ColorRank(InitialColoring(g))))),
    cache |-> [ stack |-> <<>>, map |-> <<>>, neighbors |-> CacheNeighbors(g) ] ]

Leaves(g) == LeavesBelow(RootOf(g))

LeafImages(g) == { ApplyMorphism(g, Unwrap(AsPermutation(l.coloring))) : l \in Leaves(g) }

\* The node a path leads to from r: its elements individualized in turn.
RECURSIVE WalkTo(_, _)
WalkTo(r, p) ==
  IF p = <<>> THEN r
  ELSE WalkTo(NodeIndividualize(r.node, r.cache, Head(p)), Tail(p))

\* Path p comes before path q in the search tree of g: where they part, at
\* their common ancestor, both steps are members of the ancestor's target
\* cell and the step of p stands before the step of q in that cell.
PathBefore(g, p, q) ==
  LET l == LongestCommonPrefixLen(p, q)
      a == WalkTo(RootOf(g), SubSeq(p, 1, l)).node
  IN  /\ l < Len(p) /\ l < Len(q)
      /\ ChildrenColor(a) # None
      /\ LET cell == Cell(a.coloring, ChildrenColor(a))
         IN  /\ p[l + 1] \in SeqSet(cell) /\ q[l + 1] \in SeqSet(cell)
             /\ PosIn(cell, p[l + 1]) < PosIn(cell, q[l + 1])

\* The image of the leaf a path leads to in the search tree of g.
ImageAt(g, p) ==
  ApplyMorphism(g, Unwrap(AsPermutation(WalkTo(RootOf(g), p).node.coloring)))

\* g relabeled by sigma, written out on the triples.
Relabeled(g, sigma) ==
  [ triples |->
      { << IF t[1][1] = 1 THEN <<1, sigma[t[1][2]]>> ELSE t[1],
           IF t[2][1] = 1 THEN <<1, sigma[t[2][2]]>> ELSE t[2],
           IF t[3][1] = 1 THEN <<1, sigma[t[3][2]]>> ELSE t[3] >> :
        t \in g.triples },
    variable_count |-> g.variable_count ]

\* C1: canonize of a relabeling of G returns the same image as canonize of G.
C1_RelabelingSameImage ==
  (pc = "done" /\ first # Idle) => result.image = first.image

C1_Witness ==
  /\ pc = "done" /\ first # Idle
  /\ first.relabeled
  /\ Cardinality(DOMAIN automorphisms) > 1
  /\ Len(visited) > Cardinality(DOMAIN automorphisms)

\* C2: the canonical image of G is G relabeled by a permutation of its
\* universe, so two structures with equal canonical images are relabelings of
\* one another.
C2_ImageIsRelabeling ==
  pc = "done" =>
    \E sigma \in Bijections(graph.variable_count) :
      result.image = Relabeled(graph, sigma)

C2_Witness ==
  /\ pc = "done"
  /\ result.image # graph
  /\ Cardinality(graph.triples) = MaxTriples
  /\ Cardinality(DOMAIN automorphisms) > 1

\* C3 as written: the returned image is less than or equal to the image of G
\* under every permutation of the universe.
C3_MinOverAllPermutations ==
  pc = "done" =>
    \A sigma \in Bijections(graph.variable_count) :
      ~GraphLess(ApplyMorphism(graph, sigma), result.image)

\* C3, amended: the returned image is less than or equal to the image of G
\* under the labeling of every leaf of G's search tree.
C3_MinOverLeafLabelings ==
  pc = "done" =>
    \A l \in Leaves(graph) :
      ~GraphLess(ApplyMorphism(graph, Unwrap(AsPermutation(l.coloring))), result.image)

C3_Witness ==
  /\ pc = "done"
  /\ \E l \in Leaves(graph) :
       GraphLess(result.image, ApplyMorphism(graph, Unwrap(AsPermutation(l.coloring))))
  /\ \E sigma \in Bijections(graph.variable_count) :
       GraphLess(ApplyMorphism(graph, sigma), result.image)

\* C4: applying the returned permutation to G yields exactly the returned
\* image.
C4_PermutationYieldsImage ==
  pc = "done" => ApplyMorphism(graph, result.permutation) = result.image

C4_Witness ==
  /\ pc = "done"
  /\ result.image # graph
  /\ Cardinality(DOMAIN automorphisms) > 1
  /\ automorphisms[result.image].path # <<>>

\* C5: the image canonize returns, having skipped sub-trees after image
\* collisions, is the least image over all leaves of the complete search tree.
C5_PrunedIsLeastLeafImage ==
  pc = "done" =>
    /\ result.image \in LeafImages(graph)
    /\ \A m \in LeafImages(graph) : ~GraphLess(m, result.image)

C5_Witness ==
  /\ pc = "done"
  /\ Len(visited) < Cardinality(Leaves(graph))
  /\ Cardinality(DOMAIN automorphisms) > 1

\* The first cell of more than one item of a coloring that is not discrete.
FirstLargeCell(c) ==
  LET cells == CellsOf(c)
      large == { k \in DOMAIN cells : Len(cells[k]) > 1 }
  IN  cells[CHOOSE k \in large : \A j \in large : k <= j]

\* C19 as written: when canonize starts to descend from the root, the refine
\* hook has been called on the root coloring R0.
C19_HookOnRoot ==
  (pc = "descend" /\ path = <<>>) =>
    /\ last # Idle
    /\ last.op = "refine_coloring"
    /\ before.depth = 0

\* C19, amended: canonize never calls the refine hook on the root coloring:
\* every call of the hook is on a coloring of depth at least 1 in which an
\* item has just been individualized, no call has been made when the descent
\* starts, and the first item individualized is the first member of the first
\* cell of more than one item of the initial coloring, unrefined.
C19_HookAfterIndividualize ==
  /\ (pc = "descend" /\ path = <<>>) => last = Idle
  /\ last # Idle =>
       /\ last.op = "refine_coloring"
       /\ before.depth >= 1
       /\ Cell(before, before.reverse[last.item]) = <<last.item>>
  /\ path # <<>> =>
       /\ path[1] \in SeqSet(FirstLargeCell(RootOf(graph).node.coloring))
       /\ visited = <<>> =>
            path[1] = FirstLargeCell(RootOf(graph).node.coloring)[1]

\* C19 witness: the first descent has individualized its first item, in a
\* root coloring with two cells of more than one item, the first of them not
\* the first cell.
C19_Witness ==
  /\ pc = "descend" /\ visited = <<>> /\ Len(path) = 1
  /\ last # Idle
  /\ Cardinality({ k \in Colors(RootOf(graph).node.coloring) :
                     Len(Cell(RootOf(graph).node.coloring, k)) > 1 }) > 1
  /\ Len(Cell(RootOf(graph).node.coloring, 0)) = 1

\* C23: the leaves the walk returns come in strictly increasing order of
\* their paths, each step compared by its position in the target cell of the
\* node it is taken at; no leaf is returned twice; and when into_next_leaf
\* returns None every leaf of the search tree has been returned.
C23_LeavesInOrder ==
  (graph # Idle /\ pc \in {"descend", "next", "done"}) =>
    /\ Len(visited) >= 2 =>
         PathBefore(graph, visited[Len(visited) - 1], visited[Len(visited)])
    /\ \A j, k \in DOMAIN visited : j # k => visited[j] # visited[k]
    /\ pc = "done" =>
         { visited[k] : k \in DOMAIN visited }
           = { l.path : l \in Leaves(graph) }

\* C23 witness: the walk is over after it returned three leaves or more, one
\* of them reached by moving to a parent and then to its next sibling.
C23_Witness ==
  /\ pc = "done" /\ automorphisms = <<>>
  /\ Len(visited) >= 3
  /\ \E k \in 1 .. (Len(visited) - 1) :
       LongestCommonPrefixLen(visited[k], visited[k + 1]) + 2
         <= Len(visited[k])

\* C24: when the image of the leaf canonize looks at is already in the map,
\* under a path that shares a longest common prefix of length l with the
\* leaf's path, the step leaves the map as it is and leaves the node at depth
\* l + 1 with the first l + 1 elements of the leaf's path as its path; and the
\* leaf looked at next does not lie below that prefix.
C24_CollisionPrunes ==
  [][ /\ (pc = "descend" /\ pc' = "next" /\ Morphed \in DOMAIN automorphisms) =>
           LET l == LongestCommonPrefixLen(path, automorphisms[Morphed].path)
           IN  /\ automorphisms' = automorphisms
               /\ depth' = l + 1
               /\ path' = SubSeq(path, 1, l + 1)
               /\ Len(path') = l + 1
      /\ (pc = "descend" /\ pc' = "next" /\ visited # <<>>) =>
           LET p == visited[Len(visited)]
               stored == automorphisms[ImageAt(graph, p)].path
               l == LongestCommonPrefixLen(p, stored)
           IN  stored # p =>
                 /\ Len(path) >= l + 1
                 /\ SubSeq(path, 1, l + 1) # SubSeq(p, 1, l + 1) ]_vars

\* C24 witness: canonize has just given up at least one level below the
\* first difference between a leaf and the path stored with its image.
C24_Witness ==
  /\ graph # Idle /\ pc = "next" /\ visited # <<>>
  /\ LET p == visited[Len(visited)]
         stored == automorphisms[ImageAt(graph, p)].path
     IN  /\ stored # p
         /\ Len(path) = LongestCommonPrefixLen(p, stored) + 1
         /\ Len(path) < Len(p)
         /\ path = SubSeq(p, 1, Len(path))
         /\ depth = Len(path)

\* The place of the walk in the search tree, as a sequence that grows in
\* lexicographic order along a depth-first walk: the path while the walk goes
\* down, the path closed by a mark greater than every item once the node has
\* been dealt with.
WalkRank ==
  IF pc = "descend" THEN path ELSE Append(path, graph.variable_count)

\* C25: canonize terminates on every structure and returns a result: no step
\* of it aborts, every step but the last moves the walk forward in the
\* search tree, which is finite, and the last step returns a result.
C25_CanonizeReturns ==
  [][ /\ pc' # "panicked"
      /\ pc' \in {"descend", "next"} => SeqLess(WalkRank, WalkRank')
      /\ pc' = "done" => result' # Idle ]_vars

\* The cell an individualized item was taken from, read from the coloring c
\* handed to the refine closure: the item, alone in its cell, and the cell
\* that follows it, which holds the rest.
TakenFrom(c, item) == {item} \cup SeqSet(Cell(c, c.reverse[item] + 1))

\* C27: every element pushed onto the path is the first (least) member of
\* the cell it was individualized from.
C27_PushedIsFirst ==
  (graph # Idle /\ last # Idle /\ last.op = "refine_coloring") =>
    \A z \in TakenFrom(before, last.item) : last.item <= z

\* C27 as amended: an element pushed on the way down is the first member of
\* the cell it is individualized from; the element pushed when into_next_leaf
\* moves to the next sibling replaces the popped element x and is the member
\* that follows x in the cell x was taken from.
C27_PushedIsFirstOrNextSibling ==
  [][ /\ Len(path') = Len(path) + 1 =>
           /\ last'.item = path'[Len(path')]
           /\ \A z \in TakenFrom(before', last'.item) : last'.item <= z
      /\ (Len(path') = Len(path) /\ path' # path) =>
           LET x == path[Len(path)]
               y == path'[Len(path')]
               T == TakenFrom(before', y)
           IN  /\ last'.item = y
               /\ SubSeq(path', 1, Len(path) - 1) = SubSeq(path, 1, Len(path) - 1)
               /\ x \in T /\ x < y
               /\ \A z \in T : ~(x < z /\ z < y) ]_vars

\* C27 witness: the element just pushed is the next sibling of the element
\* popped, and not the first member of its cell.
C27_Witness ==
  /\ graph # Idle /\ pc = "descend"
  /\ last # Idle /\ last.op = "refine_coloring"
  /\ path # <<>> /\ last.item = path[Len(path)]
  /\ \E z \in TakenFrom(before, last.item) : z < last.item

\* The indexes of the cells of more than one item.
LargeCells(c) == { k \in Colors(c) : Len(Cell(c, k)) > 1 }

\* C33: children_color() is the cell of more than one item with the least
\* index, None when there is none; every turn of into_first_child_leaf
\* pushes the least item of that cell, and the leaf it ends on has no cell of
\* more than one item.
C33_TargetCell ==
  /\ [](graph # Idle =>
          IF LargeCells(Self) = {} THEN ChildrenColor(NodeSelf) = None
          ELSE /\ ChildrenColor(NodeSelf) \in LargeCells(Self)
               /\ \A j \in LargeCells(Self) : ChildrenColor(NodeSelf) <= j)
  /\ [][ /\ (visited = <<>> /\ visited' = <<>> /\ path' # path) =>
              /\ LargeCells(Self) # {}
              /\ LET i == CHOOSE k \in LargeCells(Self) :
                            \A j \in LargeCells(Self) : k <= j
                     x == path'[Len(path')]
                 IN  /\ path' = Append(path, x)
                     /\ x \in SeqSet(Cell(Self, i))
                     /\ \A y \in SeqSet(Cell(Self, i)) : x <= y
         /\ (visited = <<>> /\ visited' # <<>>) => LargeCells(Self) = {} ]_vars

\* C33 witness: into_first_child_leaf has taken two turns from a root
\* coloring whose first cell is a singleton and which has two cells of more
\* than one item, the second turn choosing in another cell than the first.
C33_Witness ==
  /\ pc = "descend" /\ visited = <<>> /\ Len(path) = 2
  /\ Len(Cell(RootOf(graph).node.coloring, 0)) = 1
  /\ Cardinality(LargeCells(RootOf(graph).node.coloring)) > 1
  /\ RootOf(graph).node.coloring.reverse[path[1]]
       # RootOf(graph).node.coloring.reverse[path[2]]

\* C30: between the operations on the node (root, individualize, restore,
\* into_first_child_leaf, into_next_leaf, the pruning restore of canonize) the
\* length of its path is the depth of its coloring.
C30_PathLenIsDepth ==
  graph # Idle => Len(path) = depth

\* C30 witness: the node stands below the root and above the leaf looked at
\* last, after a restore, and two leaves or more have been looked at.
C30_Witness ==
  /\ graph # Idle /\ pc = "next"
  /\ Len(visited) >= 2
  /\ Len(path) >= 1 /\ Len(path) < Len(visited[Len(visited)])
  /\ depth = Len(path)

\* C22: whatever the size of the universe, the node canonize holds has no
\* target cell (children_color() is None) exactly when its coloring is
\* discrete, so the unwrap of as_permutation() at a leaf never panics.
C22_LeafIffDiscrete ==
  (graph # Idle /\ pc \in {"descend", "next", "done", "panicked"}) =>
    /\ (ChildrenColor(NodeSelf) = None) <=> IsDiscrete(Self)
    /\ pc # "panicked"

\* ======================================================================
\* SpecEquitable: make_equitable on a drawn coloring and neighbors function,
\* one turn of its loop at a time, called twice in a row.
\* ======================================================================
EquitableSelf == [ c |-> Self, stack |-> stack, map |-> map ]

SetEquitable(es) == SetSelf(es.c) /\ stack' = es.stack /\ map' = es.map

\* make_equitable up to the loop (coloring.rs:550-569).
MakeEquitableEnter(c, set, ordinal) ==
  [ c |-> c, stack |-> InitialStack(c),
    map |-> [ p \in 1 .. set |-> 0 ],
    last |-> Call("make_equitable", None, ordinal, TRUE) ]

InitEquitable ==
  /\ \E n \in {0, NEq} :
       /\ \E c \in InitialColorings(n) :
            /\ elements = c.elements /\ bounds = c.bounds
            /\ reverse = c.reverse /\ depth = c.depth
            /\ before = c
            /\ stack = MakeEquitableEnter(c, n, 1).stack
            /\ map = MakeEquitableEnter(c, n, 1).map
            /\ last = MakeEquitableEnter(c, n, 1).last
       /\ \E E \in EdgeLists(n) : neighbors = NeighborsOf(n, E)
  /\ pc = "loop"
  /\ scope = Idle /\ graph = Idle /\ path = Idle /\ automorphisms = Idle
  /\ result = Idle /\ first = Idle /\ visited = Idle

\* One turn of the while loop (coloring.rs:571-591).
EquitableTurn ==
  /\ pc = "loop"
  /\ EquitableRunning(EquitableSelf)
  /\ Len(elements) > 0
  /\ SetEquitable(EquitableStep(EquitableSelf, neighbors))
  /\ UNCHANGED <<last, before, scope, neighbors, canonVars, pc>>

\* A turn of the loop on the empty universe: the color is popped, the map
\* is rewritten, and refine_with panics, its last refine_color reading
\* elements[range.start()] of no element (coloring.rs:469).
EquitablePanics ==
  /\ pc = "loop"
  /\ EquitableRunning(EquitableSelf)
  /\ Len(elements) = 0
  /\ stack' = SubSeq(stack, 1, Len(stack) - 1)
  /\ map' = CountMap(Self, map, neighbors, stack[Len(stack)])
  /\ pc' = "panicked"
  /\ UNCHANGED <<colVars, neighbors, last, before, scope, canonVars>>

\* The loop ends; stack.clear() (coloring.rs:593).
EquitableReturn ==
  /\ pc = "loop"
  /\ ~EquitableRunning(EquitableSelf)
  /\ stack' = <<>>
  /\ pc' = "returned"
  /\ UNCHANGED <<colVars, last, before, scope, map, neighbors, canonVars>>

\* The second call, right after the first returned.
MakeEquitableAgain ==
  /\ pc = "returned"
  /\ last.n = 1
  /\ stack' = MakeEquitableEnter(Self, Len(elements), 2).stack
  /\ map' = MakeEquitableEnter(Self, Len(elements), 2).map
  /\ last' = MakeEquitableEnter(Self, Len(elements), 2).last
  /\ before' = Self
  /\ pc' = "loop"
  /\ UNCHANGED <<colVars, scope, neighbors, canonVars>>

NextEquitable ==
  \/ EquitableTurn
  \/ EquitablePanics
  \/ EquitableReturn
  \/ MakeEquitableAgain

SpecEquitable == InitEquitable /\ [][NextEquitable]_vars

\* The number of neighbors of u in cell d.
NeighborsIn(c, nb, u, d) ==
  Cardinality({ q \in DOMAIN nb[u] : c.reverse[nb[u][q]] = d })

\* P8: any two items of a cell have as many neighbors in every cell.
Equitable(c, nb) ==
  \A i \in Colors(c) :
    \A u, v \in SeqSet(Cell(c, i)) :
      \A d \in Colors(c) : NeighborsIn(c, nb, u, d) = NeighborsIn(c, nb, v, d)

\* C6: when make_equitable returns, any two items of a cell have the same
\* number of neighbors in every cell.
C6_EquitableOnReturn ==
  pc = "returned" => Equitable(Self, neighbors)

\* C7: a second make_equitable with the same neighbors function, right after
\* the first, leaves the coloring unchanged: the coloring it returns is ==
\* to the one it was called on.
C7_SecondCallChangesNothing ==
  (pc = "returned" /\ last.n = 2) => ReversibleColoringEq(Self, before)

\* ======================================================================
\* SpecScope: begin(), operations that keep the depth, restore(1).
\* scope is [c, merged, outer_removed]: the coloring at the begin(), whether a
\* deindividualize has merged cells since, and whether one removed a bound
\* that the coloring had at the begin().
\* ======================================================================
InitScope ==
  /\ \E c \in InitialColorings(N) :
       /\ elements = c.elements /\ bounds = c.bounds
       /\ reverse = c.reverse /\ depth = c.depth
       /\ before = c
  /\ last = Call("from_coloring", None, 0, TRUE)
  /\ scope = Idle
  /\ stack = Idle /\ map = Idle /\ neighbors = Idle
  /\ graph = Idle /\ path = Idle /\ automorphisms = Idle
  /\ pc = "outside" /\ result = Idle /\ first = Idle /\ visited = Idle

Outside == pc \in {"outside", "restored"}

\* Calls made before the scope is opened.
OuterIndividualize(item) ==
  /\ Outside
  /\ SetSelf(Individualize(Self, item).c)
  /\ last' = Call("individualize", item, 0, Individualize(Self, item).ret)
  /\ before' = Self
  /\ pc' = "outside"
  /\ UNCHANGED <<scope, eqVars, canonVars>>

OuterBegin ==
  /\ Outside
  /\ depth < MaxDepth - 1
  /\ SetSelf(Begin(Self))
  /\ last' = Call("begin", None, 0, TRUE)
  /\ before' = Self
  /\ pc' = "outside"
  /\ UNCHANGED <<scope, eqVars, canonVars>>

\* The begin() that opens the scope.
ScopeBegin ==
  /\ Outside
  /\ depth < MaxDepth
  /\ SetSelf(Begin(Self))
  /\ scope' = [ c |-> Self, merged |-> FALSE, outer_removed |-> FALSE ]
  /\ last' = Call("begin", None, 0, TRUE)
  /\ before' = Self
  /\ pc' = "inside"
  /\ UNCHANGED <<eqVars, canonVars>>

\* A call inside the scope that leaves r, having merged / removed as told.
InScope(op, item, r, merged, outer_removed) ==
  /\ pc = "inside"
  /\ SetSelf(r.c)
  /\ scope' = [ scope EXCEPT !.merged = @ \/ merged,
                             !.outer_removed = @ \/ outer_removed ]
  /\ last' = Call(op, item, 0, r.ret)
  /\ before' = Self
  /\ UNCHANGED <<eqVars, canonVars, pc>>

ScopeIndividualize(item) ==
  InScope("individualize", item, Individualize(Self, item), FALSE, FALSE)

\* The depth tag of the bound a deindividualize(item) that returns true removes.
RemovedDepth(c, item) == c.bounds[c.reverse[item] + 1].depth

Merges(r) == r.ret

RemovesOuter(c, item, r) == r.ret /\ RemovedDepth(c, item) < c.depth

ScopeDeindividualize(item) ==
  InScope("deindividualize", item, Deindividualize(Self, item),
          Merges(Deindividualize(Self, item)),
          RemovesOuter(Self, item, Deindividualize(Self, item)))

ScopeRefine(key) ==
  InScope("refine", None, Refine(Self, key), FALSE, FALSE)

ScopeRefineWith(touched, key) ==
  InScope("refine_with", None, RefineWith(Self, touched, key), FALSE, FALSE)

ScopeMakeEquitable(nb) ==
  InScope("make_equitable", None,
          [ c |-> MakeEquitable(Self, N, nb), ret |-> TRUE ], FALSE, FALSE)

\* The restore(1) that closes the scope.
ScopeRestore ==
  /\ pc = "inside"
  /\ SetSelf(Restore(Self, 1))
  /\ last' = Call("restore", None, 1, TRUE)
  /\ before' = Self
  /\ pc' = "restored"
  /\ UNCHANGED <<scope, eqVars, canonVars>>

NextScope ==
  \/ \E item \in U : OuterIndividualize(item)
  \/ OuterBegin
  \/ ScopeBegin
  \/ \E item \in U : ScopeIndividualize(item)
  \/ \E item \in U : ScopeDeindividualize(item)
  \/ \E key \in Keys : ScopeRefine(key)
  \/ \E key \in Keys : \E touched \in Touched(Self) : ScopeRefineWith(touched, key)
  \/ \E E \in EdgeLists(N) : ScopeMakeEquitable(NeighborsOf(N, E))
  \/ ScopeRestore

SpecScope == InitScope /\ [][NextScope]_vars

\* C8 as written: begin(), any calls that keep the depth, restore(1) leaves
\* the coloring as it was before the begin(): the two are ==.
C8_ScopeRestored ==
  pc = "restored" => ReversibleColoringEq(Self, scope.c)

\* C8, amended: the same, provided no deindividualize of the sequence
\* removed a bound the coloring had before the begin().
C8_ScopeRestoredUnlessOuterRemoved ==
  (pc = "restored" /\ ~scope.outer_removed) => Self = scope.c

C8_Witness ==
  /\ pc = "restored"
  /\ ~scope.outer_removed
  /\ scope.merged
  /\ ColoringLen(before) > ColoringLen(scope.c)
  /\ ColoringLen(scope.c) > 1

\* C9: when individualize(x) returned true, a deindividualize(x) made right
\* after it leaves elements, bounds and reverse index (and depth) as they were
\* before the individualize.
C9_RoundTrip ==
  [][ ( /\ pc = "coloring"
        /\ last.op = "individualize" /\ last.ret
        /\ last'.op = "deindividualize" /\ last'.item = last.item )
      => /\ elements' = before.elements
         /\ bounds' = before.bounds
         /\ reverse' = before.reverse
         /\ depth' = before.depth ]_vars

C9_Witness ==
  /\ pc = "coloring"
  /\ last.op = "deindividualize" /\ last.undoes /\ last.ret
  /\ Len(Cell(Self, reverse[last.item])) >= 2
  /\ Cell(Self, reverse[last.item])[1] # last.item
  /\ Len(bounds) >= 1

\* C26: make_equitable terminates on every coloring and neighbors function
\* and returns with an empty worklist: no turn of the loop aborts, every turn
\* brings the loop closer to its end (a cell has split, of which there can be
\* no more than there are items, or the worklist has got shorter), and the
\* worklist is empty on return.
C26_MakeEquitableReturns ==
  [][ /\ pc' # "panicked"
      /\ (pc = "loop" /\ pc' = "loop") =>
           \/ Len(bounds') > Len(bounds)
           \/ Len(bounds') = Len(bounds) /\ Len(stack') < Len(stack)
      /\ pc' = "returned" => stack' = <<>> ]_vars
====
